---- MODULE Spec2Model ----
(***************************************************************************)
(* k3s-deploy-cli: node population, the lifecycle controller and the IP    *)
(* convergence pass of K3sDeploymentManager, with the Proxmox client as    *)
(* the environment (every remote call may succeed or raise ProxmoxError).  *)
(*                                                                         *)
(* Host-node names are modelled by the integers 1, 2, ... in the order of  *)
(* the names ("pve1" < "pve2"), addresses by the integer value that        *)
(* configure_vms computes with int(IPv4Address(...)), reduced to the last  *)
(* octet.                                                                  *)
(***************************************************************************)
EXTENDS Integers, Sequences, FiniteSets, TLC

\* ----------------------------------------------------------------- bounds
\* The address range of a model run holds between 0 and MaxSpan addresses.
MaxSpan == 2
\* configure_vms is invoked at most MaxRuns times in one behaviour.
MaxRuns == 2
\* Out-of-band edits of remote VM attributes between two invocations.
MaxDrift == 1
\* Attribute fetches and configuration writes that raise ProxmoxError in one
\* behaviour.
MaxFaults == 1
\* The command-line tool is started at most MaxProcs times in one behaviour.
MaxProcs == 2
\* A config.json lists at most MaxEntries VMs.
MaxEntries == 2
\* One process makes at most MaxOps calls of the functions of proxmox_api.
MaxOps == 3

\* ------------------------------------------------------ program constants
K3S_NODE_IP_RANGE_START == 201
K3S_NODE_CIDR == 24
K3S_NODE_GATEWAY == "10.10.0.1"
K3S_NODE_IPCONFIG_INDEX == 0
SERVER_TAG == "k3s-server"
AGENT_TAG == "k3s-agent"
STORAGE_TAG == "k3s-storage"
K3S_VERSION == "v1.32.4+k3s1"

\* ------------------------------------------------------------ VM identity
\* The VMs of the modelled cluster: (host-node, vmid).
VmKeys == {<<1, 2>>, <<2, 1>>, <<2, 2>>}

VMIdentifier(node, id, tags) == [proxmox_node |-> node, vmid |-> id, tags |-> tags]

\* VMIdentifier.__eq__ / __hash__: identity is (proxmox_node, vmid) only.
VmEq(a, b) == <<a.proxmox_node, a.vmid>> = <<b.proxmox_node, b.vmid>>

Key(vm) == <<vm.proxmox_node, vm.vmid>>

\* A sort key that leaves out the host-node name.
SortKeyLessByVmid(a, b) == a.vmid < b.vmid

\* sort_key = lambda vm: (vm.proxmox_node, vm.vmid), compared as Python tuples.
SortKeyLess(a, b) ==
    \/ a.proxmox_node < b.proxmox_node
    \/ a.proxmox_node = b.proxmox_node /\ a.vmid < b.vmid

\* list.sort(key=sort_key) / sorted(..., key=...): a stable insertion of each
\* element after every element whose key is not greater.
RECURSIVE InsertSorted(_, _)
InsertSorted(x, s) ==
    IF s = <<>> THEN <<x>>
    ELSE IF SortKeyLess(x, Head(s)) THEN <<x>> \o s
    ELSE <<Head(s)>> \o InsertSorted(x, Tail(s))

\* The list left in the order it had.
SortNodesSkipped(s) == s

RECURSIVE SortNodes(_)
SortNodes(s) ==
    IF s = <<>> THEN <<>>
    ELSE InsertSorted(s[Len(s)], SortNodes(SubSeq(s, 1, Len(s) - 1)))

SeqRange(s) == {s[i] : i \in 1..Len(s)}

\* ------------------------------------------------------ remote attributes
\* The attribute map of a VM restricted to the keys configure_vms reads and
\* writes.  An absent key reads as "" (vm.config.get(key, "")); the empty
\* ipconfig string is EmptyIpconfig.
EmptyIpconfig == [ip |-> 0, cidr |-> 0, gw |-> ""]

\* f"ip={addr}/{K3S_NODE_CIDR},gw={K3S_NODE_GATEWAY}"
TargetIpconfig(addr) == [ip |-> addr, cidr |-> K3S_NODE_CIDR, gw |-> K3S_NODE_GATEWAY]

PristineAttrs ==
    [ipconfig |-> EmptyIpconfig, nameserver |-> "", searchdomain |-> "", sshkeys |-> ""]

\* vm.config of an identifier built by the config-file loader: {}.
NoConfig == [ipconfig |-> EmptyIpconfig, nameserver |-> "", searchdomain |-> "", empty |-> TRUE]

Fetched(attrs) ==
    [ipconfig |-> attrs.ipconfig, nameserver |-> attrs.nameserver,
     searchdomain |-> attrs.searchdomain, empty |-> FALSE]

Addresses == K3S_NODE_IP_RANGE_START .. (K3S_NODE_IP_RANGE_START + MaxSpan - 1)

\* The text of an address of the node network, as its four dotted fields.
AddressText(last) == <<10, 10, 0, last>>

\* Any text taken for an address.
IsAddressUnchecked(text) == TRUE

\* ipaddress.IPv4Address(text) does not raise AddressValueError: four fields,
\* each an octet.
IsAddress(text) == Len(text) = 4 /\ \A i \in 1..Len(text) : text[i] \in 0..255

\* int(ipaddress.IPv4Address(text)), reduced to the last octet.
AddressInt(text) == text[Len(text)]

\* app_config.K3S_NODE_IP_RANGE_START / _END: the ranges of 0..MaxSpan
\* addresses, a start with a field that is no octet, an end of three fields.
RangeConfigs ==
    {[start |-> AddressText(K3S_NODE_IP_RANGE_START), end |-> AddressText(e)] :
        e \in (K3S_NODE_IP_RANGE_START - 1) .. (K3S_NODE_IP_RANGE_START + MaxSpan - 1)}
    \cup {[start |-> AddressText(256), end |-> AddressText(K3S_NODE_IP_RANGE_START)],
          [start |-> AddressText(K3S_NODE_IP_RANGE_START), end |-> <<10, 10, 0>>]}

\* ------------------------------------------------------------- environment
\* No config.json.
NoConfigFile == [exists |-> FALSE, shape |-> "ok", entries |-> <<>>]

\* No key in K3S_SSH_PUBLIC_KEY, no config.json, no key file.  An optional
\* string is <<>> for None and <<text>> for a string.
NoSshSources ==
    [env |-> <<>>,
     config |-> [shape |-> "absent", has_field |-> FALSE, ssh_key |-> ""],
     keyfile |-> [exists |-> FALSE, readable |-> FALSE, content |-> ""]]

\* check_k3s_version has not been called.
NoVersionCheck ==
    [response |-> [kind |-> "none", tag |-> ""], ask_update |-> FALSE, answer |-> <<>>,
     before |-> "", prompted |-> FALSE]

\* An inventory that presents no VM.
NoVms == [k \in VmKeys |-> [seen |-> FALSE, tags |-> <<"">>, fault |-> "absent"]]

VARIABLES
    \* K3sDeploymentManager
    all_nodes,
    vmconfig,
    \* the Proxmox cluster
    remote,
    \* app_config
    range_start_text,
    range_end_text,
    ip_range_end_int,
    ssh_sources,
    ssh_key,
    k3s_version,
    version_check,
    \* proxmox_api: the module-level client, whether PROXMOX_HOST and
    \* PROXMOX_USER are set, and the log of the calls of its functions
    proxmox_client,
    proxmox_host_set,
    api_log,
    target_nameserver_value,
    target_searchdomain_value,
    \* configure_vms
    force,
    restart_after,
    pc,
    idx,
    sorted_nodes,
    next_ip_to_assign_int,
    modified_vms,
    running_modified_vms,
    \* observation of a pass
    trail,
    powerLog,
    outcome,
    runs,
    drifts,
    faults,
    prev,
    cur,
    \* K3sDeploymentManager role lists
    servers,
    agents,
    storage,
    server_master,
    servers_no_first,
    \* main_cli
    command,
    exit_code,
    populated,
    prevPop,
    \* the environment of a process: config.json, the cluster inventory, and
    \* the log of the file and inventory calls made
    config_file,
    hosts,
    inventory,
    calls,
    \* the lists and the call log as they were when ensure_nodes_are_discovered
    \* was called on a manager it had populated already (<<>>: no such call)
    second_call

envVars == <<config_file, hosts, inventory, calls>>
managerVars == <<all_nodes, vmconfig>>
versionVars == <<k3s_version, version_check>>
addressVars == <<range_start_text, range_end_text, ip_range_end_int, ssh_sources, ssh_key,
                 target_nameserver_value, target_searchdomain_value>>
clientVars == <<proxmox_client, proxmox_host_set, api_log>>
callVars == <<second_call>>
configVars == <<addressVars, versionVars, clientVars, callVars>>
passVars == <<force, restart_after, idx, sorted_nodes, next_ip_to_assign_int,
              modified_vms, running_modified_vms>>
obsVars == <<trail, powerLog, outcome, runs, drifts, faults, prev, cur>>
cliVars == <<servers, agents, storage, server_master, servers_no_first, command,
             exit_code, populated, prevPop, envVars>>

vars == <<all_nodes, vmconfig, remote, range_start_text, range_end_text, ip_range_end_int,
          ssh_sources, ssh_key, k3s_version, version_check, proxmox_client,
          proxmox_host_set, api_log,
          target_nameserver_value,
          target_searchdomain_value, force, restart_after, pc, idx, sorted_nodes,
          next_ip_to_assign_int, modified_vms, running_modified_vms, trail,
          powerLog, outcome, runs, drifts, faults, prev, cur, servers, agents,
          storage, server_master, servers_no_first, command, exit_code, populated,
          prevPop, config_file, hosts, inventory, calls, second_call>>

\* ------------------------------------------------------------- proxmox_api
valid_actions == {"start", "stop", "shutdown", "reboot"}

\* control_vm(node_name, vmid, action): the local validation, the mapping of
\* "stop" to "shutdown", and the POST, which the transport may fail.
control_vm(action, transportOk) ==
    IF action \notin valid_actions
    THEN [raised |-> "ValueError", posted |-> FALSE, api |-> ""]
    ELSE [raised |-> IF transportOk THEN "none" ELSE "ProxmoxError",
          posted |-> TRUE,
          api |-> IF action = "stop" THEN "shutdown" ELSE action]

\* set_vm_network_config with the nameserver left out of params_to_set.
set_vm_network_config_no_nameserver(attrs, ipconfig_value, nameserver_value, searchdomain_value, key) ==
    [ipconfig |-> ipconfig_value,
     nameserver |-> attrs.nameserver,
     searchdomain |-> IF searchdomain_value # "" THEN searchdomain_value
                      ELSE attrs.searchdomain,
     sshkeys |-> attrs.sshkeys]

\* urllib.parse.quote of the key texts of the model: a space becomes %20, the
\* letters, digits and the hyphen stay.
Quote(text) ==
    CASE text = "ssh-ed25519 ENV" -> "ssh-ed25519%20ENV"
      [] text = "ssh-ed25519 CONFIG" -> "ssh-ed25519%20CONFIG"
      [] text = "ssh-ed25519 FILE" -> "ssh-ed25519%20FILE"
      [] OTHER -> text

\* set_vm_network_config: params_to_set as the PUT applies it to the stored
\* attributes (nameserver and searchdomain only when non-empty, sshkeys the
\* quoted key only when the key is a non-empty string).
set_vm_network_config(attrs, ipconfig_value, nameserver_value, searchdomain_value, key) ==
    [ipconfig |-> ipconfig_value,
     nameserver |-> IF nameserver_value # "" THEN nameserver_value ELSE attrs.nameserver,
     searchdomain |-> IF searchdomain_value # "" THEN searchdomain_value
                      ELSE attrs.searchdomain,
     sshkeys |-> IF key # <<>> /\ key[1] # "" THEN Quote(key[1]) ELSE attrs.sshkeys]

\* f.read().strip() on the contents of the key file.
StripKey(content) ==
    CASE content = "  " -> ""
      [] content = " ssh-ed25519 FILE " -> "ssh-ed25519 FILE"
      [] OTHER -> content

\* _get_ssh_public_key: the environment key when truthy; else data["ssh_key"]
\* when config.json parses and has the field, whatever its value; else the
\* stripped key file content when non-empty; else None.
GetSshPublicKey(src) ==
    IF src.env # <<>> /\ src.env[1] # "" THEN src.env
    ELSE IF src.config.shape = "object" /\ src.config.has_field
    THEN <<src.config.ssh_key>>
    ELSE IF /\ src.keyfile.exists
            /\ src.keyfile.readable
            /\ StripKey(src.keyfile.content) # ""
    THEN <<StripKey(src.keyfile.content)>>
    ELSE <<>>

\* ------------------------------------------------------------ configure_vms
\* The attribute map fetched for every node, whatever the manager holds.
NeedsFetchAlways(config) == TRUE

\* `not vm.config or f"ipconfig{index}" not in vm.config`
NeedsFetch(config) == config.empty \/ config.ipconfig = EmptyIpconfig

\* The attribute map the idempotency check of node k reads.
CurrentConfig(k) ==
    IF NeedsFetch(vmconfig[k]) THEN Fetched(remote[k]) ELSE vmconfig[k]

\* No exhaustion test at all.
RangeNeverExhausted(next_ip, range_end) == FALSE

\* The exhaustion test off by one.
RangeExhaustedLate(next_ip, range_end) == next_ip > range_end + 1

\* `next_ip_to_assign_int > ip_range_end_int`
RangeExhausted(next_ip, range_end) == next_ip > range_end

\* needs_update that ignores the force flag.
NeedsUpdateIgnoringForce(forced, config, addr) ==
    \/ config.ipconfig # TargetIpconfig(addr)
    \/ target_nameserver_value # "" /\ config.nameserver # target_nameserver_value
    \/ target_searchdomain_value # "" /\ config.searchdomain # target_searchdomain_value

\* needs_update that is also true whenever a key was resolved.
NeedsUpdateWhenKeyed(forced, config, addr) ==
    \/ forced
    \/ config.ipconfig # TargetIpconfig(addr)
    \/ target_nameserver_value # "" /\ config.nameserver # target_nameserver_value
    \/ target_searchdomain_value # "" /\ config.searchdomain # target_searchdomain_value
    \/ ssh_key # <<>>

\* needs_update that compares the network-config string only.
NeedsUpdateIpconfigOnly(forced, config, addr) ==
    \/ forced
    \/ config.ipconfig # TargetIpconfig(addr)

\* needs_update of the idempotency check.
NeedsUpdate(forced, config, addr) ==
    \/ forced
    \/ config.ipconfig # TargetIpconfig(addr)
    \/ target_nameserver_value # "" /\ config.nameserver # target_nameserver_value
    \/ target_searchdomain_value # "" /\ config.searchdomain # target_searchdomain_value

\* The cursor left where it is.
CursorHeld(next_ip) == next_ip

\* The cursor after a node that reached the idempotency check.
AdvanceCursor(next_ip) == next_ip + 1

\* The cursor after a node whose attribute fetch failed (`continue`).
CursorAfterFetchFailure(next_ip) == next_ip

\* What the status fetch of a node gives: a status, or "error" when
\* get_vm_status raises ProxmoxError.
StatusFetches == {"running", "stopped", "error"}

\* The result of the status fetch kept as it is.
VmStatusRaw(fetched) == fetched

\* vm.status after the status fetch: `except ProxmoxError: vm.status =
\* "unknown"`, and the loop body goes on.
VmStatus(fetched) == IF fetched = "error" THEN "unknown" ELSE fetched

\* Every status but stopped taken for running.
CountsAsRunningUnlessStopped(status) == status # "stopped"

\* `if vm.status == "running": running_modified_vms.append(vm)`
CountsAsRunning(status) == status = "running"

\* The node that failed taken up again.
NodeRetried(i, n) == i

\* The loop left at the first failure.
LoopLeft(i, n) == n + 1

\* `continue` after a failed attribute fetch, and the end of the loop body
\* after a failed write: the loop goes on with the node after node i of n.
NextNode(i, n) == i + 1

\* One entry of the log of a pass: the node, the branch it took, the cursor it
\* met, whether the cluster's attributes of the node equalled the target for
\* that cursor, vm.status and whether its fetch succeeded, and the attribute
\* map the idempotency check had at hand.
Visit(k, branch, cursor, matched, fetched, config) ==
    [vm |-> k, branch |-> branch, cursor |-> cursor, matched |-> matched,
     status |-> VmStatus(fetched), statusFetched |-> fetched # "error", read |-> config]

\* The attributes of node k on the cluster equal the target for the cursor.
MatchesTarget(k, cursor) ==
    /\ remote[k].ipconfig = TargetIpconfig(cursor)
    /\ target_nameserver_value # "" => remote[k].nameserver = target_nameserver_value
    /\ target_searchdomain_value # "" => remote[k].searchdomain = target_searchdomain_value

NoRun == [n |-> 0, fresh |-> FALSE, force |-> FALSE, fetchFail |-> FALSE,
          writeFail |-> FALSE, driftAfter |-> FALSE]

NameserverValues == {"", "10.10.0.1"}
SearchdomainValues == {"", "lan.home.vwn.io"}
IpconfigValues == {EmptyIpconfig} \cup {TargetIpconfig(a) : a \in Addresses}

\* The sorted, duplicate-free node list _populate_node_lists leaves for a set
\* of VMs.
RECURSIVE NodeListOf(_)
NodeListOf(S) ==
    IF S = {} THEN <<>>
    ELSE LET k == CHOOSE x \in S : \A y \in S : x = y \/ x[1] < y[1] \/ (x[1] = y[1] /\ x[2] < y[2])
         IN <<VMIdentifier(k[1], k[2], <<>>)>> \o NodeListOf(S \ {k})

\* The node sets of the convergence runs: two and three nodes.
ConvNodeSets == {{<<1, 2>>, <<2, 1>>}, VmKeys}

\* The state the pass variables have outside a call of configure_vms.
PassIdle ==
    /\ force = FALSE
    /\ restart_after = FALSE
    /\ idx = 0
    /\ sorted_nodes = <<>>
    /\ next_ip_to_assign_int = K3S_NODE_IP_RANGE_START
    /\ modified_vms = <<>>
    /\ running_modified_vms = <<>>
    /\ trail = <<>>
    /\ powerLog = <<>>
    /\ outcome = "none"

\* configure_vms has returned: its locals no longer exist.
ResetPass ==
    /\ force' = FALSE
    /\ restart_after' = FALSE
    /\ idx' = 0
    /\ sorted_nodes' = <<>>
    /\ next_ip_to_assign_int' = K3S_NODE_IP_RANGE_START
    /\ modified_vms' = <<>>
    /\ running_modified_vms' = <<>>
    /\ trail' = <<>>
    /\ powerLog' = <<>>
    /\ outcome' = "none"

InitConv ==
    /\ \E S \in ConvNodeSets : all_nodes = NodeListOf(S)
    /\ servers = all_nodes
    /\ agents = <<>>
    /\ storage = <<>>
    /\ server_master = <<all_nodes[1]>>
    /\ servers_no_first = Tail(all_nodes)
    /\ command = "none"
    /\ exit_code = -1
    /\ populated = "file"
    /\ prevPop = <<>>
    /\ config_file = NoConfigFile
    /\ hosts = "ok"
    /\ inventory = NoVms
    /\ calls = <<>>
    /\ ssh_sources = NoSshSources
    /\ ssh_key = <<>>
    /\ k3s_version = K3S_VERSION
    /\ version_check = NoVersionCheck
    /\ proxmox_client = <<>>
    /\ proxmox_host_set = TRUE
    /\ api_log = <<>>
    /\ second_call = <<>>
    /\ vmconfig = [k \in VmKeys |-> NoConfig]
    /\ remote = [k \in VmKeys |-> PristineAttrs]
    /\ \E cfg \in RangeConfigs : range_start_text = cfg.start /\ range_end_text = cfg.end
    /\ ip_range_end_int = AddressInt(range_end_text)
    /\ target_nameserver_value \in NameserverValues
    /\ target_searchdomain_value \in SearchdomainValues
    /\ pc = "idle"
    /\ PassIdle
    /\ runs = 0
    /\ drifts = 0
    /\ faults = 0
    /\ prev = NoRun
    /\ cur = NoRun

\* An administrator edits one network attribute of one VM between two passes.
Drift ==
    /\ pc \in {"idle", "ready"}
    /\ runs >= 1
    /\ drifts < MaxDrift
    /\ \E i \in 1..Len(all_nodes) :
         \E a \in [ipconfig : IpconfigValues, nameserver : NameserverValues,
                   searchdomain : SearchdomainValues] :
            LET k == Key(all_nodes[i]) IN
            /\ Cardinality({f \in {"ipconfig", "nameserver", "searchdomain"} :
                              a[f] # remote[k][f]}) = 1
            /\ remote' = [remote EXCEPT ![k] =
                            [ipconfig |-> a.ipconfig, nameserver |-> a.nameserver,
                             searchdomain |-> a.searchdomain, sshkeys |-> @.sshkeys]]
    /\ drifts' = drifts + 1
    /\ cur' = [cur EXCEPT !.driftAfter = TRUE]
    /\ UNCHANGED <<managerVars, configVars, passVars, pc, trail, powerLog, outcome,
                   runs, faults, prev, cliVars>>

\* configure_vms(restart_after, force) up to the loop.  From "idle" the call
\* is made in a new process: the manager is rebuilt over the same node set, by
\* the config-file loader (empty attribute maps) or by tag discovery (the
\* attribute maps read from the cluster).  From "ready" the manager instance
\* is reused and ensure_nodes_are_discovered returns at once.
ConfigureVmsBegin ==
    /\ pc \in {"idle", "ready"}
    /\ runs < MaxRuns
    /\ \E f \in BOOLEAN, r \in BOOLEAN, source \in {"file", "tags"} :
        /\ (pc = "ready" => source = "file")
        /\ force' = f
        /\ restart_after' = r
        /\ vmconfig' = IF pc = "ready" THEN vmconfig
                       ELSE IF source = "file" THEN [k \in VmKeys |-> NoConfig]
                       ELSE [k \in VmKeys |-> Fetched(remote[k])]
        /\ prev' = cur
        /\ cur' = [n |-> runs + 1, fresh |-> pc = "idle", force |-> f,
                   fetchFail |-> FALSE, writeFail |-> FALSE, driftAfter |-> FALSE]
    /\ runs' = runs + 1
    /\ ssh_key' = GetSshPublicKey(ssh_sources)
    /\ modified_vms' = <<>>
    /\ running_modified_vms' = <<>>
    /\ trail' = <<>>
    /\ powerLog' = <<>>
    /\ next_ip_to_assign_int' = K3S_NODE_IP_RANGE_START
    /\ IF IsAddress(range_start_text) /\ IsAddress(range_end_text)
       THEN /\ sorted_nodes' = SortNodes(all_nodes)
            /\ idx' = 1
            /\ outcome' = "running"
            /\ pc' = "loop"
       ELSE \* AddressValueError -> ConfigurationError, before the sort
            /\ sorted_nodes' = <<>>
            /\ idx' = 0
            /\ outcome' = "ConfigurationError"
            /\ pc' = "done"
    /\ UNCHANGED <<all_nodes, remote, range_start_text, range_end_text, ip_range_end_int,
                   ssh_sources, target_nameserver_value, target_searchdomain_value,
                   versionVars, clientVars, callVars, drifts, faults, cliVars>>

InLoop == pc = "loop" /\ idx <= Len(sorted_nodes)

\* The attribute fetch of the node raises ProxmoxError: logged, `continue`.
NodeFetchFailed ==
    /\ InLoop
    /\ faults < MaxFaults
    /\ \E fetched \in StatusFetches :
        LET k == Key(sorted_nodes[idx]) IN
        /\ NeedsFetch(vmconfig[k])
        /\ trail' = Append(trail, Visit(k, "fetch_failed", next_ip_to_assign_int,
                                        MatchesTarget(k, next_ip_to_assign_int),
                                        fetched, vmconfig[k]))
    /\ next_ip_to_assign_int' = CursorAfterFetchFailure(next_ip_to_assign_int)
    /\ idx' = NextNode(idx, Len(sorted_nodes))
    /\ faults' = faults + 1
    /\ cur' = [cur EXCEPT !.fetchFail = TRUE]
    /\ UNCHANGED <<managerVars, remote, configVars, force, restart_after, sorted_nodes,
                   modified_vms, running_modified_vms, pc, powerLog, outcome, runs,
                   drifts, prev, cliVars>>

\* The cursor is past range-end: two errors are logged, `continue`.
NodeExhausted ==
    /\ InLoop
    /\ \E fetched \in StatusFetches :
        LET k == Key(sorted_nodes[idx]) IN
        /\ RangeExhausted(next_ip_to_assign_int, ip_range_end_int)
        /\ vmconfig' = [vmconfig EXCEPT ![k] = CurrentConfig(k)]
        /\ trail' = Append(trail, Visit(k, "exhausted", next_ip_to_assign_int, FALSE,
                                        fetched, CurrentConfig(k)))
    /\ idx' = idx + 1
    /\ UNCHANGED <<all_nodes, remote, configVars, force, restart_after, sorted_nodes,
                   next_ip_to_assign_int, modified_vms, running_modified_vms, pc,
                   powerLog, outcome, runs, drifts, faults, prev, cur, cliVars>>

\* needs_update is false: the skip is logged and the cursor advances.
NodeAlreadyConfigured ==
    /\ InLoop
    /\ \E fetched \in StatusFetches :
       LET k == Key(sorted_nodes[idx])
           config == CurrentConfig(k)
       IN
        /\ ~RangeExhausted(next_ip_to_assign_int, ip_range_end_int)
        /\ ~NeedsUpdate(force, config, next_ip_to_assign_int)
        /\ vmconfig' = [vmconfig EXCEPT ![k] = config]
        /\ trail' = Append(trail, Visit(k, "skipped", next_ip_to_assign_int,
                                        MatchesTarget(k, next_ip_to_assign_int),
                                        fetched, config))
    /\ next_ip_to_assign_int' = AdvanceCursor(next_ip_to_assign_int)
    /\ idx' = idx + 1
    /\ UNCHANGED <<all_nodes, remote, configVars, force, restart_after, sorted_nodes,
                   modified_vms, running_modified_vms, pc, powerLog, outcome, runs,
                   drifts, faults, prev, cur, cliVars>>

\* needs_update is true and the configuration write succeeds.
NodeWritten ==
    /\ InLoop
    /\ \E fetched \in StatusFetches :
        LET vm == sorted_nodes[idx]
            k == Key(vm)
            config == CurrentConfig(k)
            status == VmStatus(fetched)
        IN
        /\ ~RangeExhausted(next_ip_to_assign_int, ip_range_end_int)
        /\ NeedsUpdate(force, config, next_ip_to_assign_int)
        /\ vmconfig' = [vmconfig EXCEPT ![k] = config]
        /\ remote' = [remote EXCEPT ![k] =
                        set_vm_network_config(@, TargetIpconfig(next_ip_to_assign_int),
                                              target_nameserver_value,
                                              target_searchdomain_value, ssh_key)]
        /\ modified_vms' = Append(modified_vms, vm)
        /\ running_modified_vms' = IF CountsAsRunning(status)
                                   THEN Append(running_modified_vms, vm)
                                   ELSE running_modified_vms
        /\ trail' = Append(trail, Visit(k, "written", next_ip_to_assign_int,
                                        MatchesTarget(k, next_ip_to_assign_int),
                                        fetched, config))
    /\ next_ip_to_assign_int' = AdvanceCursor(next_ip_to_assign_int)
    /\ idx' = idx + 1
    /\ UNCHANGED <<all_nodes, configVars, force, restart_after, sorted_nodes, pc,
                   powerLog, outcome, runs, drifts, faults, prev, cur, cliVars>>

\* needs_update is true and the configuration write raises ProxmoxError.
NodeWriteFailed ==
    /\ InLoop
    /\ faults < MaxFaults
    /\ \E fetched \in StatusFetches :
       LET k == Key(sorted_nodes[idx])
           config == CurrentConfig(k)
       IN
        /\ ~RangeExhausted(next_ip_to_assign_int, ip_range_end_int)
        /\ NeedsUpdate(force, config, next_ip_to_assign_int)
        /\ vmconfig' = [vmconfig EXCEPT ![k] = config]
        /\ trail' = Append(trail, Visit(k, "write_failed", next_ip_to_assign_int,
                                        MatchesTarget(k, next_ip_to_assign_int),
                                        fetched, config))
    /\ next_ip_to_assign_int' = AdvanceCursor(next_ip_to_assign_int)
    /\ idx' = NextNode(idx, Len(sorted_nodes))
    /\ faults' = faults + 1
    /\ cur' = [cur EXCEPT !.writeFail = TRUE]
    /\ UNCHANGED <<all_nodes, remote, configVars, force, restart_after, sorted_nodes,
                   modified_vms, running_modified_vms, pc, powerLog, outcome, runs,
                   drifts, prev, cliVars>>

\* After the loop: the manual-restart summary is only logged; with
\* restart_after and a non-empty ledger the restart loop follows.
ConfigureVmsAfterLoop ==
    /\ pc = "loop"
    /\ idx > Len(sorted_nodes)
    /\ IF modified_vms # <<>> /\ restart_after
       THEN pc' = "restart" /\ idx' = 1 /\ outcome' = outcome
       ELSE pc' = "done" /\ idx' = idx /\ outcome' = "completed"
    /\ UNCHANGED <<managerVars, remote, configVars, force, restart_after, sorted_nodes,
                   next_ip_to_assign_int, modified_vms, running_modified_vms, trail,
                   powerLog, runs, drifts, faults, prev, cur, cliVars>>

\* One iteration of the restart loop: control_vm(node, vmid, "restart")
\* inside `try ... except ProxmoxError`; any other exception leaves
\* configure_vms.
RestartModifiedVm ==
    /\ pc = "restart"
    /\ \E transportOk \in BOOLEAN :
        LET vm == modified_vms[idx]
            call == control_vm("restart", transportOk)
        IN
        /\ powerLog' = IF call.posted
                       THEN Append(powerLog, [vm |-> Key(vm), action |-> call.api,
                                              ok |-> call.raised = "none"])
                       ELSE powerLog
        /\ IF call.raised \notin {"none", "ProxmoxError"}
           THEN pc' = "done" /\ outcome' = call.raised /\ idx' = idx
           ELSE IF idx = Len(modified_vms)
           THEN pc' = "done" /\ outcome' = "completed" /\ idx' = idx
           ELSE pc' = pc /\ outcome' = outcome /\ idx' = idx + 1
    /\ UNCHANGED <<managerVars, remote, configVars, force, restart_after, sorted_nodes,
                   next_ip_to_assign_int, modified_vms, running_modified_vms, trail,
                   runs, drifts, faults, prev, cur, cliVars>>

\* configure_vms returns or raises: its locals are gone.  The caller either
\* keeps the manager instance for a further call or the process ends.
ConfigureVmsReturn ==
    /\ pc = "done"
    /\ \E keep \in BOOLEAN :
        /\ pc' = IF keep THEN "ready" ELSE "idle"
        /\ vmconfig' = IF keep THEN vmconfig ELSE [k \in VmKeys |-> NoConfig]
    /\ ResetPass
    /\ UNCHANGED <<all_nodes, remote, configVars, runs, drifts, faults, prev, cur, cliVars>>

NextConv ==
    \/ Drift
    \/ ConfigureVmsBegin
    \/ NodeFetchFailed
    \/ NodeExhausted
    \/ NodeAlreadyConfigured
    \/ NodeWritten
    \/ NodeWriteFailed
    \/ ConfigureVmsAfterLoop
    \/ RestartModifiedVm
    \/ ConfigureVmsReturn

SpecConv == InitConv /\ [][NextConv]_vars

\* ------------------------------------- passes over a cluster configured before
\* The key in the environment variable, and the key in the key file.
EnvKeySource == [NoSshSources EXCEPT !.env = <<"ssh-ed25519 ENV">>]
FileKeySource ==
    [NoSshSources EXCEPT !.keyfile = [exists |-> TRUE, readable |-> TRUE,
                                      content |-> " ssh-ed25519 FILE "]]

\* Three nodes and a range of MaxSpan addresses; the first node holds a
\* network-config string set before the first pass; a key may be configured.
InitRepeat ==
    /\ all_nodes = NodeListOf(VmKeys)
    /\ servers = all_nodes
    /\ agents = <<>>
    /\ storage = <<>>
    /\ server_master = <<all_nodes[1]>>
    /\ servers_no_first = Tail(all_nodes)
    /\ command = "none"
    /\ exit_code = -1
    /\ populated = "file"
    /\ prevPop = <<>>
    /\ config_file = NoConfigFile
    /\ hosts = "ok"
    /\ inventory = NoVms
    /\ calls = <<>>
    /\ ssh_sources \in {NoSshSources, EnvKeySource}
    /\ ssh_key = <<>>
    /\ k3s_version = K3S_VERSION
    /\ version_check = NoVersionCheck
    /\ proxmox_client = <<>>
    /\ proxmox_host_set = TRUE
    /\ api_log = <<>>
    /\ second_call = <<>>
    /\ vmconfig = [k \in VmKeys |-> NoConfig]
    /\ \E c \in IpconfigValues \ {EmptyIpconfig} :
          remote = [k \in VmKeys |->
                      IF k = Key(all_nodes[1]) THEN [PristineAttrs EXCEPT !.ipconfig = c]
                      ELSE PristineAttrs]
    /\ range_start_text = AddressText(K3S_NODE_IP_RANGE_START)
    /\ range_end_text = AddressText(K3S_NODE_IP_RANGE_START + MaxSpan - 1)
    /\ ip_range_end_int = AddressInt(range_end_text)
    /\ target_nameserver_value = ""
    /\ target_searchdomain_value = ""
    /\ pc = "idle"
    /\ PassIdle
    /\ runs = 0
    /\ drifts = 0
    /\ faults = 0
    /\ prev = NoRun
    /\ cur = NoRun

\* Between two passes the operator supplies a key where there was none, or
\* replaces the key of the environment by the one of the key file.
KeyChanged ==
    /\ pc \in {"idle", "ready"}
    /\ runs >= 1
    /\ ssh_sources \in {NoSshSources, EnvKeySource}
    /\ ssh_sources' = IF ssh_sources = NoSshSources THEN EnvKeySource ELSE FileKeySource
    /\ UNCHANGED <<managerVars, remote, range_start_text, range_end_text, ip_range_end_int,
                   ssh_key, target_nameserver_value, target_searchdomain_value,
                   versionVars, clientVars, callVars, passVars, pc, obsVars, cliVars>>

NextRepeat ==
    \/ KeyChanged
    \/ Drift
    \/ ConfigureVmsBegin
    \/ NodeFetchFailed
    \/ NodeExhausted
    \/ NodeAlreadyConfigured
    \/ NodeWritten
    \/ NodeWriteFailed
    \/ ConfigureVmsAfterLoop
    \/ RestartModifiedVm
    \/ ConfigureVmsReturn

SpecRepeat == InitRepeat /\ [][NextRepeat]_vars

\* --------------------------------------------------------- node population
\* The role strings of the entries of config.json.
RoleStrings == {"server", "k3s-agent", "STORAGE", "worker"}

\* str.upper() on the strings the loader compares.
Upper(str) ==
    CASE str = "server" -> "SERVER"
      [] str = "agent" -> "AGENT"
      [] str = "storage" -> "STORAGE"
      [] str = "k3s-server" -> "K3S-SERVER"
      [] str = "k3s-agent" -> "K3S-AGENT"
      [] str = "k3s-storage" -> "K3S-STORAGE"
      [] str = "worker" -> "WORKER"
      [] OTHER -> str

\* The if/elif chain of load_nodes_from_config_file on the upper-cased role.
FileRole(role) ==
    IF Upper(role) = Upper(SERVER_TAG) \/ Upper(role) = "SERVER" THEN "server"
    ELSE IF Upper(role) = Upper(AGENT_TAG) \/ Upper(role) = "AGENT" THEN "agent"
    ELSE IF Upper(role) = Upper(STORAGE_TAG) \/ Upper(role) = "STORAGE" THEN "storage"
    ELSE "none"

\* One VM entry of config.json in the order the loader iterates them.
FileEntries == [key : VmKeys, role : RoleStrings]

\* The content of an existing config.json that is not the expected structure:
\* not JSON at all, or JSON whose top level, whose entries of "nodes" or whose
\* entries of "vms" are not objects.
MalformedShapes == {"invalid_json", "top_not_object", "node_not_object", "vm_not_object"}

\* config.json: absent, malformed, or the list of its VM entries.
ConfigFiles ==
    {NoConfigFile}
    \cup {[exists |-> TRUE, shape |-> sh, entries |-> <<>>] : sh \in MalformedShapes}
    \cup {[exists |-> TRUE, shape |-> "ok", entries |-> e] :
            e \in UNION {[1..n -> FileEntries] : n \in 0..MaxEntries}}

\* What load_nodes_from_config_file raises on an existing file: json.load
\* raises JSONDecodeError, turned into ConfigurationError; data.get,
\* p_node_info.get and vm_info.get on a value that is no dict raise
\* AttributeError, which nothing in the loader catches.
LoadRaises(file) ==
    CASE file.shape = "ok" -> "none"
      [] file.shape = "invalid_json" -> "ConfigurationError"
      [] OTHER -> "AttributeError"

\* A loaded file counted as success whatever it yields.
FileSufficesWhenLoaded(loaded, m) == loaded

\* ensure_nodes_are_discovered: `if self.load_nodes_from_config_file(): if
\* self.all_nodes: return`.
FileSuffices(loaded, m) == loaded /\ m.all_nodes # <<>>

\* The segments of the "tags" attribute after split(";").
TagStrings ==
    {<<"">>, <<"k3s-server">>, <<"k3s-agent">>, <<"k3s-server", " k3s-storage ">>,
     <<"backup", " ">>}

\* str.strip() on the segments of TagStrings.
Strip(seg) ==
    CASE seg = " k3s-storage " -> "k3s-storage"
      [] seg = " " -> ""
      [] OTHER -> seg

\* Only the first segment of the tags attribute is read.
ParseTagsFirstOnly(segments) ==
    SelectSeq(<<Strip(segments[1])>>, LAMBDA t : t # "")

\* [tag.strip() for tag in tags_str.split(";") if tag.strip()]
ParseTags(segments) ==
    LET stripped == [i \in 1..Len(segments) |-> Strip(segments[i])]
    IN SelectSeq(stripped, LAMBDA t : t # "")

\* What the inventory presents for one VM: unseen, because it does not exist
\* ("absent"), because get_vms_on_node failed for its host-node and returned
\* [] ("host"), or because get_vm_config raised ProxmoxError ("vm"); or seen,
\* with its tags attribute.
Observations ==
    {[seen |-> FALSE, tags |-> <<"">>, fault |-> f] : f \in {"absent", "host", "vm"}}
    \cup {[seen |-> TRUE, tags |-> t, fault |-> "none"] : t \in TagStrings}

\* A failed VM list hides every VM of the host-node.
Inventories ==
    {inv \in [VmKeys -> Observations] :
        \A k1, k2 \in VmKeys :
            (k1[1] = k2[1] /\ inv[k1].fault = "host") => inv[k2].fault = "host"}

\* The iteration order of a Python set over the VMs: any order.
Orders == {o \in [1..Cardinality(VmKeys) -> VmKeys] :
             \A i, j \in 1..Cardinality(VmKeys) : i # j => o[i] # o[j]}

\* A set that keeps one of its members only.
ListOfSetKeepingOne(s, order) ==
    IF s = <<>> THEN <<>> ELSE <<s[1]>>

\* list(set(s)): one object per (proxmox_node, vmid), the first inserted, in
\* the iteration order of the set.
ListOfSet(s, order) ==
    LET present == SelectSeq(order, LAMBDA k : \E i \in 1..Len(s) : Key(s[i]) = k)
        first(k) == CHOOSE i \in 1..Len(s) :
                        Key(s[i]) = k /\ \A m \in 1..(i - 1) : Key(s[m]) # k
    IN [j \in 1..Len(present) |-> s[first(present[j])]]

\* The manager's lists as one value.
Lists(all, srv, agt, sto, master, rest) ==
    [all_nodes |-> all, servers |-> srv, agents |-> agt, storage |-> sto,
     server_master |-> master, servers_no_first |-> rest]

\* K3sDeploymentManager.__init__
EmptyLists == Lists(<<>>, <<>>, <<>>, <<>>, <<>>, <<>>)

\* _populate_node_lists: the four lists sorted, the master the first server
\* (<<>> stands for None), servers_no_first the rest.
PopulateNodeLists(m) ==
    LET srv == SortNodes(m.servers)
    IN Lists(SortNodes(m.all_nodes), srv, SortNodes(m.agents), SortNodes(m.storage),
             IF srv # <<>> THEN <<srv[1]>> ELSE <<>>,
             IF srv # <<>> THEN Tail(srv) ELSE <<>>)

\* The identifiers load_nodes_from_config_file appends for one role.
LoadedWithRole(entries, role) ==
    LET sel == SelectSeq(entries, LAMBDA e : FileRole(e.role) = role)
    IN [i \in 1..Len(sel) |-> VMIdentifier(sel[i].key[1], sel[i].key[2], <<>>)]

\* load_nodes_from_config_file of an existing file.
LoadNodesFromConfigFile(file, order) ==
    LET loaded_servers == LoadedWithRole(file.entries, "server")
        loaded_agents == LoadedWithRole(file.entries, "agent")
        loaded_storage == LoadedWithRole(file.entries, "storage")
    IN PopulateNodeLists(
           Lists(ListOfSet(loaded_servers \o loaded_agents \o loaded_storage, order),
                 loaded_servers, loaded_agents, loaded_storage, <<>>, <<>>))

\* get_proxmox_cluster_nodes and get_vms_on_node return sorted lists: the
\* order in which discover_nodes_by_tags meets the VMs.
Enumeration == [i \in 1..Cardinality(VmKeys) |-> Key(NodeListOf(VmKeys)[i])]

\* The walk over the host-nodes and their VMs given up at the first failure.
ReachesUntilFailure(inv, k) ==
    /\ inv[k].seen
    /\ \A i, j \in 1..Len(Enumeration) :
          (Enumeration[j] = k /\ i < j) => inv[Enumeration[i]].fault \notin {"host", "vm"}

\* The walk of discover_nodes_by_tags has the attribute map of VM k at hand:
\* a host-node whose VM list failed and a VM whose attribute fetch failed are
\* passed over with `continue`, whatever failed before them.
Reaches(inv, k) == inv[k].seen

\* discover_nodes_by_tags after the host-node list was fetched.
DiscoverNodesByTags(m, inv, order) ==
    LET vm_tags(k) == ParseTags(inv[k].tags)
        has(k, tag) == \E i \in 1..Len(vm_tags(k)) : vm_tags(k)[i] = tag
        found == SelectSeq(Enumeration, LAMBDA k :
                     /\ Reaches(inv, k)
                     /\ vm_tags(k) # <<>>
                     /\ has(k, SERVER_TAG) \/ has(k, AGENT_TAG) \/ has(k, STORAGE_TAG))
        ident(ks) == [i \in 1..Len(ks) |-> VMIdentifier(ks[i][1], ks[i][2], vm_tags(ks[i]))]
        tagged(tag) == ident(SelectSeq(found, LAMBDA k : has(k, tag)))
    IN PopulateNodeLists(
           Lists(ListOfSet(m.all_nodes \o ident(found), order),
                 ListOfSet(m.servers \o tagged(SERVER_TAG), order),
                 ListOfSet(m.agents \o tagged(AGENT_TAG), order),
                 ListOfSet(m.storage \o tagged(STORAGE_TAG), order),
                 <<>>, <<>>))

\* ensure_nodes_are_discovered on a manager with empty lists: every result
\* the config file and the inv can produce.  A result names the
\* exception raised, the source that populated the lists last, and the lists.
EnsureOnEmptyManager ==
    LET after(file, order) ==
            IF file.exists THEN LoadNodesFromConfigFile(file, order) ELSE EmptyLists
        results(file, order) ==
            IF file.exists /\ LoadRaises(file) # "none"
            THEN {[raised |-> LoadRaises(file), populated |-> "none", lists |-> EmptyLists]}
            ELSE IF FileSuffices(file.exists, after(file, order))
            THEN {[raised |-> "none", populated |-> "file", lists |-> after(file, order)]}
            ELSE \* get_proxmox_cluster_nodes raises or returns no host-node
                 {[raised |-> "NodeDiscoveryError",
                   populated |-> IF file.exists THEN "file" ELSE "none",
                   lists |-> after(file, order)]}
                 \cup
                 {LET d == DiscoverNodesByTags(after(file, order), inv, order)
                  IN [raised |-> IF d.all_nodes # <<>> THEN "none" ELSE "NodeDiscoveryError",
                      populated |-> "tags", lists |-> d] : inv \in Inventories}
    IN UNION {results(file, order) : file \in ConfigFiles, order \in Orders}

\* A manager never taken as populated.
NeverPopulated(m) == FALSE

\* `if self.all_nodes:` at the head of ensure_nodes_are_discovered.
AlreadyPopulated(m) == m.all_nodes # <<>>

\* ensure_nodes_are_discovered(): `if self.all_nodes: return` first.
EnsureNodesAreDiscovered(m, by) ==
    IF AlreadyPopulated(m)
    THEN {[raised |-> "none", populated |-> by, lists |-> m]}
    ELSE EnsureOnEmptyManager

Manager == Lists(all_nodes, servers, agents, storage, server_master, servers_no_first)

\* The manager's lists become those of a result of ensure_nodes_are_discovered.
SetLists(r) ==
    /\ all_nodes' = r.lists.all_nodes
    /\ servers' = r.lists.servers
    /\ agents' = r.lists.agents
    /\ storage' = r.lists.storage
    /\ server_master' = r.lists.server_master
    /\ servers_no_first' = r.lists.servers_no_first
    /\ populated' = r.populated

\* ----------------------------------------------------------------- main_cli
LifecycleCommands == {"start", "stop", "restart"}

\* The commands whose handler works on the node lists.
NodeCommands == LifecycleCommands \cup {"configure-ips", "provision"}

Commands == NodeCommands \cup {"check-version"}

\* The manager method each handler of cli.py calls.
HandlerMethod(cmd) ==
    CASE cmd \in LifecycleCommands -> "perform_vm_action"
      [] cmd = "configure-ips" -> "configure_ips"
      [] cmd = "provision" -> "provision_k3s_cluster"
      [] cmd = "check-version" -> "check_k3s_version"

\* The methods K3sDeploymentManager defines.
ManagerMethods ==
    {"load_nodes_from_config_file", "discover_nodes_by_tags",
     "ensure_nodes_are_discovered", "check_k3s_version", "perform_vm_action",
     "configure_vms", "provision_k3s_cluster"}

\* Every exception an unexpected one.
ExitCodeAlwaysTwo(raised) == 2

\* sys.exit code of main_cli for an exception: K3sDeployError and its
\* subclasses 1, any other exception 2.
ExitCodeFor(raised) ==
    IF raised \in {"K3sDeployError", "ProxmoxError", "NodeDiscoveryError", "ConfigurationError"}
    THEN 1 ELSE 2

\* What a finished population leaves for comparison with the next process:
\* its source and the identities of the servers, the master and the rest.
KeysOf(s) == [i \in 1..Len(s) |-> Key(s[i])]

PopulationSummary ==
    [populated |-> populated, servers |-> KeysOf(servers),
     server_master |-> KeysOf(server_master),
     servers_no_first |-> KeysOf(servers_no_first)]

\* The statuses get_vm_status reports.
Statuses == {"running", "stopped", "paused"}

\* A restart that reboots whatever the status.
LifecycleRequestRebootsAlways(action, current_status) ==
    CASE action = "start" -> IF current_status = "running" THEN "none" ELSE "start"
      [] action = "stop" -> IF current_status = "stopped" THEN "none" ELSE "stop"
      [] action = "restart" -> "reboot"

\* A start and a stop that act whatever the status.
LifecycleRequestActsAlways(action, current_status) ==
    CASE action = "start" -> "start"
      [] action = "stop" -> "stop"
      [] action = "restart" -> IF current_status # "running" THEN "start" ELSE "reboot"

\* perform_vm_action: the action handed to control_vm for a node of the given
\* status, "none" when the node is left alone.
LifecycleRequest(action, current_status) ==
    CASE action = "start" -> IF current_status = "running" THEN "none" ELSE "start"
      [] action = "stop" -> IF current_status = "stopped" THEN "none" ELSE "stop"
      [] action = "restart" -> IF current_status # "running" THEN "start" ELSE "reboot"

\* One entry of the log of perform_vm_action: the node, the status fetched
\* ("error" when the fetch raised), the action handed to control_vm, the
\* action posted to the cluster and the exception control_vm raised.
Processed(k, status, request, posted, raised) ==
    [vm |-> k, status |-> status, request |-> request, posted |-> posted, raised |-> raised]

Init ==
    /\ all_nodes = <<>>
    /\ servers = <<>>
    /\ agents = <<>>
    /\ storage = <<>>
    /\ server_master = <<>>
    /\ servers_no_first = <<>>
    /\ command = "none"
    /\ exit_code = -1
    /\ populated = "none"
    /\ prevPop = <<>>
    /\ config_file = NoConfigFile
    /\ hosts = "ok"
    /\ inventory = NoVms
    /\ calls = <<>>
    /\ ssh_sources = NoSshSources
    /\ ssh_key = <<>>
    /\ k3s_version = K3S_VERSION
    /\ version_check = NoVersionCheck
    /\ proxmox_client = <<>>
    /\ proxmox_host_set = TRUE
    /\ api_log = <<>>
    /\ second_call = <<>>
    /\ vmconfig = [k \in VmKeys |-> NoConfig]
    /\ remote = [k \in VmKeys |-> PristineAttrs]
    /\ range_start_text = AddressText(K3S_NODE_IP_RANGE_START)
    /\ range_end_text = AddressText(K3S_NODE_IP_RANGE_START + MaxSpan - 1)
    /\ ip_range_end_int = AddressInt(range_end_text)
    /\ target_nameserver_value = ""
    /\ target_searchdomain_value = ""
    /\ pc = "idle"
    /\ PassIdle
    /\ runs = 0
    /\ drifts = 0
    /\ faults = 0
    /\ prev = NoRun
    /\ cur = NoRun

convVars == <<vmconfig, remote, configVars, force, restart_after, sorted_nodes,
              next_ip_to_assign_int, modified_vms, running_modified_vms, powerLog,
              drifts, faults, prev, cur>>

\* The variables only the specification of the population steps changes.
cliFrame == <<convVars, envVars>>

\* main_cli up to the call of the handler: a new process with a new manager.
MainCli ==
    /\ pc \in {"idle", "exited"}
    /\ runs < MaxProcs
    /\ \E cmd \in Commands : command' = cmd
    /\ SetLists([raised |-> "none", populated |-> "none", lists |-> EmptyLists])
    /\ prevPop' = IF populated # "none" THEN <<PopulationSummary>> ELSE prevPop
    /\ exit_code' = -1
    /\ pc' = "dispatch"
    /\ runs' = runs + 1
    /\ idx' = 0
    /\ trail' = <<>>
    /\ outcome' = "none"
    /\ k3s_version' = K3S_VERSION
    /\ version_check' = NoVersionCheck
    /\ UNCHANGED <<vmconfig, remote, addressVars, clientVars, callVars, force, restart_after,
                   sorted_nodes, next_ip_to_assign_int, modified_vms, running_modified_vms,
                   powerLog, drifts, faults, prev, cur, envVars>>

\* handle_vm_action -> perform_vm_action up to its loop.
HandleVmAction ==
    /\ pc = "dispatch"
    /\ command \in LifecycleCommands
    /\ HandlerMethod(command) \in ManagerMethods
    /\ \E r \in EnsureNodesAreDiscovered(Manager, populated) :
        /\ SetLists(r)
        /\ IF r.raised # "none"
           THEN /\ pc' = "exited"
                /\ exit_code' = ExitCodeFor(r.raised)
                /\ outcome' = r.raised
                /\ idx' = idx
           ELSE /\ pc' = "life"
                /\ idx' = 1
                /\ UNCHANGED <<exit_code, outcome>>
    /\ UNCHANGED <<command, prevPop, runs, trail, cliFrame>>

\* One iteration of the loop of perform_vm_action: get_vm_status raises
\* ProxmoxError, the node is skipped.
VmStatusFailed ==
    /\ pc = "life"
    /\ idx <= Len(all_nodes)
    /\ trail' = Append(trail, Processed(Key(all_nodes[idx]), "error", "none", "none", "none"))
    /\ idx' = idx + 1
    /\ UNCHANGED <<pc, outcome, runs, managerVars, cliVars, remote, configVars, force,
                   restart_after, sorted_nodes, next_ip_to_assign_int, modified_vms,
                   running_modified_vms, powerLog, drifts, faults, prev, cur>>

\* One iteration: the node already has the status the command asks for.
VmLeftAlone ==
    /\ pc = "life"
    /\ idx <= Len(all_nodes)
    /\ \E current_status \in Statuses :
        /\ LifecycleRequest(command, current_status) = "none"
        /\ trail' = Append(trail, Processed(Key(all_nodes[idx]), current_status,
                                            "none", "none", "none"))
    /\ idx' = idx + 1
    /\ UNCHANGED <<pc, outcome, runs, managerVars, cliVars, remote, configVars, force,
                   restart_after, sorted_nodes, next_ip_to_assign_int, modified_vms,
                   running_modified_vms, powerLog, drifts, faults, prev, cur>>

\* One iteration: control_vm is called, outside any try block; what it raises
\* leaves perform_vm_action and reaches main_cli.
VmPowerAction ==
    /\ pc = "life"
    /\ idx <= Len(all_nodes)
    /\ \E current_status \in Statuses, transportOk \in BOOLEAN :
        LET request == LifecycleRequest(command, current_status)
            r == control_vm(request, transportOk)
        IN /\ request # "none"
           /\ trail' = Append(trail, Processed(Key(all_nodes[idx]), current_status,
                                               request, r.api, r.raised))
           /\ IF r.raised = "none"
              THEN /\ idx' = idx + 1
                   /\ UNCHANGED <<pc, outcome, exit_code>>
              ELSE /\ pc' = "exited"
                   /\ exit_code' = ExitCodeFor(r.raised)
                   /\ outcome' = r.raised
                   /\ idx' = idx
    /\ UNCHANGED <<runs, managerVars, servers, agents, storage, server_master,
                   servers_no_first, command, populated, prevPop, cliFrame>>

\* The loop of perform_vm_action is over: the handler returns, main_cli logs
\* the completion and the process ends with code 0.
PerformVmActionReturn ==
    /\ pc = "life"
    /\ idx > Len(all_nodes)
    /\ pc' = "exited"
    /\ exit_code' = 0
    /\ outcome' = "completed"
    /\ UNCHANGED <<idx, trail, runs, managerVars, servers, agents, storage, server_master,
                   servers_no_first, command, populated, prevPop, cliFrame>>

\* handle_configure_ips: the attribute lookup manager.configure_ips raises
\* AttributeError, which main_cli's `except Exception` turns into exit code 2.
HandleConfigureIps ==
    /\ pc = "dispatch"
    /\ command = "configure-ips"
    /\ HandlerMethod(command) \notin ManagerMethods
    /\ pc' = "exited"
    /\ exit_code' = ExitCodeFor("AttributeError")
    /\ outcome' = "AttributeError"
    /\ UNCHANGED <<idx, trail, runs, managerVars, servers, agents, storage, server_master,
                   servers_no_first, command, populated, prevPop, cliFrame>>

\* handle_provision -> provision_k3s_cluster: population, then the check that
\* a master exists.
HandleProvision ==
    /\ pc = "dispatch"
    /\ command = "provision"
    /\ HandlerMethod(command) \in ManagerMethods
    /\ \E r \in EnsureNodesAreDiscovered(Manager, populated) :
        LET raised == IF r.raised # "none" THEN r.raised
                      ELSE IF r.lists.server_master = <<>> THEN "K3sDeployError"
                      ELSE "none"
        IN /\ SetLists(r)
           /\ exit_code' = IF raised = "none" THEN 0 ELSE ExitCodeFor(raised)
           /\ outcome' = IF raised = "none" THEN "completed" ELSE raised
    /\ pc' = "exited"
    /\ UNCHANGED <<idx, trail, command, prevPop, runs, cliFrame>>

\* The body of the releases URL as check_k3s_version meets it: the request
\* fails, the status is an error, the body is not JSON, is JSON but no object,
\* is an object without a tag_name, or an object with one.
ReleaseTags == {K3S_VERSION, "v1.33.0+k3s1"}

ReleasesResponses ==
    {[kind |-> kd, tag |-> ""] :
        kd \in {"network_error", "http_error", "invalid_json", "not_object", "no_tag"}}
    \cup {[kind |-> "tag", tag |-> t] : t \in ReleaseTags}

\* What input() returns: <<>> when stdin is at end of file (EOFError), else
\* the line typed.
AnswerLines == {<<>>, <<"y">>, <<" Y ">>, <<"n">>, <<"yes">>, <<"">>}

\* .strip().lower() on the lines of AnswerLines.
StripLower(line) == IF line = " Y " THEN "y" ELSE line

\* check_k3s_version(ask_update): the version the manager holds afterwards,
\* whether the prompt was shown, and the exception that leaves the method.
\* RequestException (request, status, JSON decoding) is caught; the .get of a
\* body that is no object and the input() at end of file are not.
CheckK3sVersion(current, response, ask, line) ==
    LET unchanged(prompted, raised) ==
            [version |-> current, prompted |-> prompted, raised |-> raised]
    IN  CASE response.kind \in {"network_error", "http_error", "invalid_json"} ->
                unchanged(FALSE, "none")
          [] response.kind = "not_object" -> unchanged(FALSE, "AttributeError")
          [] response.kind = "no_tag" -> unchanged(FALSE, "none")
          [] OTHER ->
                IF current = response.tag \/ ~ask THEN unchanged(FALSE, "none")
                ELSE IF line = <<>> THEN unchanged(TRUE, "EOFError")
                ELSE IF StripLower(line[1]) = "y"
                THEN [version |-> response.tag, prompted |-> TRUE, raised |-> "none"]
                ELSE unchanged(TRUE, "none")

\* handle_check_version -> check_k3s_version(ask_update=args.update).
HandleCheckVersion ==
    /\ pc = "dispatch"
    /\ command = "check-version"
    /\ HandlerMethod(command) \in ManagerMethods
    /\ \E response \in ReleasesResponses, ask \in BOOLEAN, line \in AnswerLines :
        LET r == CheckK3sVersion(k3s_version, response, ask, line)
        IN /\ k3s_version' = r.version
           /\ version_check' = [response |-> response, ask_update |-> ask, answer |-> line,
                                before |-> k3s_version, prompted |-> r.prompted]
           /\ exit_code' = IF r.raised = "none" THEN 0 ELSE ExitCodeFor(r.raised)
           /\ outcome' = IF r.raised = "none" THEN "completed" ELSE r.raised
    /\ pc' = "exited"
    /\ UNCHANGED <<idx, trail, runs, managerVars, servers, agents, storage, server_master,
                   servers_no_first, command, populated, prevPop, remote,
                   addressVars, clientVars, callVars, force, restart_after, sorted_nodes,
                   next_ip_to_assign_int,
                   modified_vms, running_modified_vms, powerLog, drifts, faults, prev, cur,
                   envVars>>

Next ==
    \/ MainCli
    \/ HandleCheckVersion
    \/ HandleVmAction
    \/ VmStatusFailed
    \/ VmLeftAlone
    \/ VmPowerAction
    \/ PerformVmActionReturn
    \/ HandleConfigureIps
    \/ HandleProvision

Spec == Init /\ [][Next]_vars

\* ------------------------------------- one command, population step by step
\* The file yields no node: it is absent, or none of its entries has a
\* recognized role.
FileGivesNoNode(file) ==
    \/ ~file.exists
    \/ /\ file.shape = "ok"
       /\ \A i \in 1..Len(file.entries) : FileRole(file.entries[i].role) = "none"

\* One process with its command, its config.json and, where the file gives no
\* node, the state of the cluster inventory.
InitPop ==
    /\ all_nodes = <<>>
    /\ servers = <<>>
    /\ agents = <<>>
    /\ storage = <<>>
    /\ server_master = <<>>
    /\ servers_no_first = <<>>
    /\ command \in NodeCommands
    /\ exit_code = -1
    /\ populated = "none"
    /\ prevPop = <<>>
    /\ config_file \in ConfigFiles
    /\ hosts \in IF FileGivesNoNode(config_file) THEN {"error", "empty", "ok"} ELSE {"ok"}
    /\ inventory \in IF FileGivesNoNode(config_file) /\ hosts = "ok"
                     THEN Inventories ELSE {NoVms}
    /\ calls = <<>>
    /\ ssh_sources = NoSshSources
    /\ ssh_key = <<>>
    /\ k3s_version = K3S_VERSION
    /\ version_check = NoVersionCheck
    /\ proxmox_client = <<>>
    /\ proxmox_host_set = TRUE
    /\ api_log = <<>>
    /\ second_call = <<>>
    /\ vmconfig = [k \in VmKeys |-> NoConfig]
    /\ remote = [k \in VmKeys |-> PristineAttrs]
    /\ range_start_text = AddressText(K3S_NODE_IP_RANGE_START)
    /\ range_end_text = AddressText(K3S_NODE_IP_RANGE_START + MaxSpan - 1)
    /\ ip_range_end_int = AddressInt(range_end_text)
    /\ target_nameserver_value = ""
    /\ target_searchdomain_value = ""
    /\ pc = "dispatch"
    /\ PassIdle
    /\ runs = 1
    /\ drifts = 0
    /\ faults = 0
    /\ prev = NoRun
    /\ cur = NoRun

\* The process ends with the exception at main_cli.
ExitWith(raised) ==
    /\ pc' = "exited"
    /\ exit_code' = ExitCodeFor(raised)
    /\ outcome' = raised

\* The handler calls its manager method, which calls
\* ensure_nodes_are_discovered: load_nodes_from_config_file.
EnsureLoadsConfigFile ==
    /\ pc = "dispatch"
    /\ HandlerMethod(command) \in ManagerMethods
    /\ IF ~config_file.exists
       THEN /\ calls' = Append(calls, "config.exists")
            /\ pc' = "discover"
            /\ UNCHANGED <<managerVars, servers, agents, storage, server_master,
                           servers_no_first, populated, exit_code, outcome>>
       ELSE IF LoadRaises(config_file) # "none"
       THEN /\ calls' = calls \o <<"config.exists", "config.read">>
            /\ ExitWith(LoadRaises(config_file))
            /\ UNCHANGED <<managerVars, servers, agents, storage, server_master,
                           servers_no_first, populated>>
       ELSE \E order \in Orders :
              LET m == LoadNodesFromConfigFile(config_file, order)
              IN /\ calls' = calls \o <<"config.exists", "config.read">>
                 /\ SetLists([populated |-> "file", lists |-> m])
                 /\ pc' = IF FileSuffices(TRUE, m) THEN "populated" ELSE "discover"
                 /\ UNCHANGED <<vmconfig, exit_code, outcome>>
    /\ UNCHANGED <<command, prevPop, runs, idx, trail, config_file, hosts, inventory,
                   remote, configVars, force, restart_after, sorted_nodes,
                   next_ip_to_assign_int, modified_vms, running_modified_vms, powerLog,
                   drifts, faults, prev, cur>>

\* discover_nodes_by_tags: get_proxmox_cluster_nodes raises or returns no
\* host-node.
DiscoverFindsNoHost ==
    /\ pc = "discover"
    /\ hosts # "ok"
    /\ calls' = Append(calls, "get_proxmox_cluster_nodes")
    /\ ExitWith("NodeDiscoveryError")
    /\ UNCHANGED <<command, prevPop, runs, idx, trail, config_file, hosts, inventory,
                   managerVars, servers, agents, storage, server_master,
                   servers_no_first, populated, convVars>>

\* discover_nodes_by_tags over the host-nodes, and the check of
\* ensure_nodes_are_discovered that it found a node.
DiscoverWalksHosts ==
    /\ pc = "discover"
    /\ hosts = "ok"
    /\ \E order \in Orders :
        LET d == DiscoverNodesByTags(Manager, inventory, order)
        IN /\ SetLists([populated |-> "tags", lists |-> d])
           /\ IF d.all_nodes # <<>>
              THEN pc' = "populated" /\ UNCHANGED <<exit_code, outcome>>
              ELSE ExitWith("NodeDiscoveryError")
    /\ calls' = calls \o <<"get_proxmox_cluster_nodes", "get_vms_on_node">>
    /\ UNCHANGED <<command, prevPop, runs, idx, trail, config_file, hosts, inventory,
                   convVars>>

\* ensure_nodes_are_discovered has returned: perform_vm_action enters its
\* loop, provision_k3s_cluster checks the master.
CommandProceeds ==
    /\ pc = "populated"
    /\ IF command \in LifecycleCommands
       THEN /\ pc' = "life"
            /\ idx' = 1
            /\ UNCHANGED <<exit_code, outcome>>
       ELSE /\ idx' = idx
            /\ IF server_master = <<>>
               THEN ExitWith("K3sDeployError")
               ELSE pc' = "exited" /\ exit_code' = 0 /\ outcome' = "completed"
    /\ UNCHANGED <<command, prevPop, runs, trail, envVars, managerVars, servers, agents,
                   storage, server_master, servers_no_first, populated, convVars>>

\* A further call of ensure_nodes_are_discovered on the manager the first
\* call has populated (every manager method begins with one): it returns at
\* once when all_nodes is non-empty, and goes to the config file otherwise.
EnsureCalledAgain ==
    /\ pc = "populated"
    /\ second_call = <<>>
    /\ second_call' = <<[lists |-> Manager, calls |-> calls]>>
    /\ pc' = IF AlreadyPopulated(Manager) THEN "populated" ELSE "dispatch"
    /\ UNCHANGED <<command, prevPop, runs, idx, trail, exit_code, outcome, envVars,
                   managerVars, servers, agents, storage, server_master,
                   servers_no_first, populated, remote, addressVars, versionVars,
                   clientVars, passVars, powerLog, drifts, faults, prev, cur>>

NextPop ==
    \/ EnsureLoadsConfigFile
    \/ EnsureCalledAgain
    \/ DiscoverFindsNoHost
    \/ DiscoverWalksHosts
    \/ CommandProceeds
    \/ HandleConfigureIps
    \/ VmStatusFailed
    \/ VmLeftAlone
    \/ VmPowerAction
    \/ PerformVmActionReturn

SpecPop == InitPop /\ [][NextPop]_vars

\* ------------------------------------------------------- SSH key resolution
\* app_config.SSH_PUBLIC_KEY: unset, empty, or a key.
EnvKeys == {<<>>, <<"">>, <<"ssh-ed25519 ENV">>}

\* config.json as _get_ssh_public_key reads it: absent, not JSON, or an
\* object without or with an ssh_key field.
ConfigKeys ==
    {[shape |-> "absent", has_field |-> FALSE, ssh_key |-> ""],
     [shape |-> "invalid_json", has_field |-> FALSE, ssh_key |-> ""],
     [shape |-> "object", has_field |-> FALSE, ssh_key |-> ""],
     [shape |-> "object", has_field |-> TRUE, ssh_key |-> ""],
     [shape |-> "object", has_field |-> TRUE, ssh_key |-> "ssh-ed25519 CONFIG"]}

\* The file at SSH_PUBLIC_KEY_PATH: missing, unreadable, or its content.
KeyFiles ==
    {[exists |-> FALSE, readable |-> FALSE, content |-> ""],
     [exists |-> TRUE, readable |-> FALSE, content |-> ""]}
    \cup {[exists |-> TRUE, readable |-> TRUE, content |-> t] :
            t \in {"", "  ", "ssh-ed25519 FILE", " ssh-ed25519 FILE "}}

\* The sources of the key are drawn; the manager holds one node.
InitKey ==
    /\ all_nodes = NodeListOf({<<1, 2>>})
    /\ servers = all_nodes
    /\ agents = <<>>
    /\ storage = <<>>
    /\ server_master = <<all_nodes[1]>>
    /\ servers_no_first = <<>>
    /\ command = "none"
    /\ exit_code = -1
    /\ populated = "file"
    /\ prevPop = <<>>
    /\ config_file = NoConfigFile
    /\ hosts = "ok"
    /\ inventory = NoVms
    /\ calls = <<>>
    /\ ssh_sources \in [env : EnvKeys, config : ConfigKeys, keyfile : KeyFiles]
    /\ ssh_key = <<>>
    /\ k3s_version = K3S_VERSION
    /\ version_check = NoVersionCheck
    /\ proxmox_client = <<>>
    /\ proxmox_host_set = TRUE
    /\ api_log = <<>>
    /\ second_call = <<>>
    /\ vmconfig = [k \in VmKeys |-> NoConfig]
    /\ remote = [k \in VmKeys |-> PristineAttrs]
    /\ range_start_text = AddressText(K3S_NODE_IP_RANGE_START)
    /\ range_end_text = AddressText(K3S_NODE_IP_RANGE_START + MaxSpan - 1)
    /\ ip_range_end_int = AddressInt(range_end_text)
    /\ target_nameserver_value = ""
    /\ target_searchdomain_value = ""
    /\ pc = "idle"
    /\ PassIdle
    /\ runs = 0
    /\ drifts = 0
    /\ faults = 0
    /\ prev = NoRun
    /\ cur = NoRun

\* configure_vms: `ssh_key = self._get_ssh_public_key()`; without a key it
\* warns and goes on.
ResolveSshKey ==
    /\ pc = "idle"
    /\ ssh_key' = GetSshPublicKey(ssh_sources)
    /\ pc' = "key_resolved"
    /\ outcome' = "running"
    /\ UNCHANGED <<managerVars, remote, range_start_text, range_end_text, ip_range_end_int,
                   ssh_sources, target_nameserver_value, target_searchdomain_value,
                   versionVars, clientVars, callVars, passVars, trail, powerLog, runs,
                   drifts, faults, prev, cur, cliVars>>

NextKey == ResolveSshKey

SpecKey == InitKey /\ [][NextKey]_vars

\* ------------------------------------------------------ the Proxmox client
\* What the construction of a client meets: the service answers, the
\* ProxmoxAPI constructor raises (service unreachable), or the version check
\* raises ResourceException (credentials rejected).
Connects == {"ok", "unreachable", "rejected"}

\* The calls to the remote service a construction makes.
ConstructionCalls(connect) ==
    IF connect = "unreachable" THEN <<"connect">> ELSE <<"connect", "version.get">>

\* A client constructed at every call, whatever the module holds.
GetProxmoxClientAlwaysConnects(client, host_set, connect, fresh) ==
    IF connect = "ok"
    THEN [client |-> <<fresh>>, raised |-> "none", calls |-> ConstructionCalls(connect)]
    ELSE [client |-> <<>>, raised |-> "ProxmoxError", calls |-> ConstructionCalls(connect)]

\* get_proxmox_client: the module-level client when set; else
\* ConfigurationError without host and user; else the construction and the
\* version check, whose success alone sets the module-level client.  The
\* result names the module-level client afterwards (<<>> for None), the
\* exception raised and the calls made to the remote service.
GetProxmoxClient(client, host_set, connect, fresh) ==
    IF client # <<>> THEN [client |-> client, raised |-> "none", calls |-> <<>>]
    ELSE IF ~host_set
    THEN [client |-> <<>>, raised |-> "ConfigurationError", calls |-> <<>>]
    ELSE IF connect = "ok"
    THEN [client |-> <<fresh>>, raised |-> "none", calls |-> ConstructionCalls(connect)]
    ELSE [client |-> <<>>, raised |-> "ProxmoxError", calls |-> ConstructionCalls(connect)]

\* The actions handed to control_vm: its valid ones and two it does not know.
RequestedActions == valid_actions \cup {"restart", "suspend"}

\* One entry of the log of proxmox_api calls: the function, the action (of
\* control_vm), the module-level client before and after, the exception
\* raised and the calls made to the remote service.
ApiCall(fn, action, before, after, raised, remote_calls) ==
    [fn |-> fn, action |-> action, before |-> before, after |-> after,
     raised |-> raised, calls |-> remote_calls]

\* A process that has made no call of proxmox_api yet.
InitClient ==
    /\ all_nodes = NodeListOf({<<1, 2>>})
    /\ servers = all_nodes
    /\ agents = <<>>
    /\ storage = <<>>
    /\ server_master = <<all_nodes[1]>>
    /\ servers_no_first = <<>>
    /\ command = "none"
    /\ exit_code = -1
    /\ populated = "file"
    /\ prevPop = <<>>
    /\ config_file = NoConfigFile
    /\ hosts = "ok"
    /\ inventory = NoVms
    /\ calls = <<>>
    /\ ssh_sources = NoSshSources
    /\ ssh_key = <<>>
    /\ k3s_version = K3S_VERSION
    /\ version_check = NoVersionCheck
    /\ proxmox_client = <<>>
    /\ proxmox_host_set \in BOOLEAN
    /\ api_log = <<>>
    /\ second_call = <<>>
    /\ vmconfig = [k \in VmKeys |-> NoConfig]
    /\ remote = [k \in VmKeys |-> PristineAttrs]
    /\ range_start_text = AddressText(K3S_NODE_IP_RANGE_START)
    /\ range_end_text = AddressText(K3S_NODE_IP_RANGE_START + MaxSpan - 1)
    /\ ip_range_end_int = AddressInt(range_end_text)
    /\ target_nameserver_value = ""
    /\ target_searchdomain_value = ""
    /\ pc = "idle"
    /\ PassIdle
    /\ runs = 0
    /\ drifts = 0
    /\ faults = 0
    /\ prev = NoRun
    /\ cur = NoRun

\* The variables no function of proxmox_api writes.
clientFrame == <<managerVars, remote, addressVars, versionVars, callVars, proxmox_host_set,
                 passVars, obsVars, pc, cliVars>>

\* get_vm_status(node_name, vmid): the client, then the GET of the status.
GetVmStatusCall ==
    /\ Len(api_log) < MaxOps
    /\ \E connect \in Connects, transportOk \in BOOLEAN :
        LET g == GetProxmoxClient(proxmox_client, proxmox_host_set, connect,
                                  Len(api_log) + 1)
        IN /\ proxmox_client' = g.client
           /\ api_log' = Append(api_log,
                IF g.raised # "none"
                THEN ApiCall("get_vm_status", "", proxmox_client, g.client, g.raised, g.calls)
                ELSE ApiCall("get_vm_status", "", proxmox_client, g.client,
                             IF transportOk THEN "none" ELSE "ProxmoxError",
                             Append(g.calls, "status.current.get")))
    /\ UNCHANGED clientFrame

\* control_vm(node_name, vmid, action): `client = get_proxmox_client()` comes
\* first, then the validation of the action and the POST.
ControlVmCall ==
    /\ Len(api_log) < MaxOps
    /\ \E action \in RequestedActions, connect \in Connects, transportOk \in BOOLEAN :
        LET g == GetProxmoxClient(proxmox_client, proxmox_host_set, connect,
                                  Len(api_log) + 1)
            r == control_vm(action, transportOk)
        IN /\ proxmox_client' = g.client
           /\ api_log' = Append(api_log,
                IF g.raised # "none"
                THEN ApiCall("control_vm", action, proxmox_client, g.client, g.raised, g.calls)
                ELSE ApiCall("control_vm", action, proxmox_client, g.client, r.raised,
                             IF r.posted THEN Append(g.calls, r.api) ELSE g.calls))
    /\ UNCHANGED clientFrame

NextClient ==
    \/ GetVmStatusCall
    \/ ControlVmCall

SpecClient == InitClient /\ [][NextClient]_vars

\* ---------------------------------------------------------------- claims
InPass == pc \in {"loop", "restart", "done"}

WriteBranches == {"written", "write_failed"}

InLedger(k) == \E m \in 1..Len(modified_vms) : Key(modified_vms[m]) = k

\* Both the running pass and the one before it were fresh invocations with
\* force unset, and no attribute was edited between them.
TwoUnforcedFreshRuns ==
    /\ InPass
    /\ cur.n >= 2
    /\ cur.fresh /\ prev.fresh
    /\ ~cur.force /\ ~prev.force
    /\ ~prev.driftAfter

C2_CursorAdvancesOncePerNode ==
    InPass =>
        next_ip_to_assign_int =
            K3S_NODE_IP_RANGE_START
            + Cardinality({i \in 1..Len(trail) : trail[i].branch # "exhausted"})

\* C3: once a node meets a cursor past range-end, that node and every later
\* node get no address and no write, the loop still visits every node, and
\* every VM written before stays in the ledger with its written address.
C3_ExhaustionIsPerNode ==
    InPass =>
        /\ \A i \in 1..Len(trail) :
              trail[i].cursor > ip_range_end_int =>
                /\ \A j \in i..Len(trail) :
                      trail[j].branch \in {"exhausted", "fetch_failed"}
                /\ \A j \in 1..(i - 1) :
                      trail[j].branch = "written" =>
                        /\ InLedger(trail[j].vm)
                        /\ remote[trail[j].vm].ipconfig = TargetIpconfig(trail[j].cursor)
        /\ pc # "loop" => Len(trail) = Len(sorted_nodes)

C3_Witness ==
    /\ pc = "done"
    /\ Len(trail) = 3
    /\ trail[1].branch = "written"
    /\ trail[2].branch = "exhausted"
    /\ trail[3].branch = "exhausted"
    /\ InLedger(trail[1].vm)

\* C4 (as stated): with restart_after, a finished configure_vms has issued a
\* restart power action for every VM of the ledger and has not failed.
C4_RestartsEveryLedgerVm ==
    (pc = "done" /\ restart_after) =>
        /\ outcome = "completed"
        /\ \A m \in 1..Len(modified_vms) :
              \E j \in 1..Len(powerLog) : powerLog[j].vm = Key(modified_vms[m])

\* A lifecycle command whose population succeeded has ended.
LifecycleEnded ==
    /\ pc = "exited"
    /\ command \in LifecycleCommands
    /\ all_nodes # <<>>

\* C5 (as stated): a lifecycle command is never aborted by the failure of a
\* node's power action: when it ends every node has been processed and the
\* exit code is 0.
C5_PowerFailureDoesNotAbort ==
    LifecycleEnded =>
        /\ Len(trail) = Len(all_nodes)
        /\ exit_code = 0

\* The transition the lifecycle command owes a node of the given status.
C6_Transition(cmd, status) ==
    IF cmd = "start" THEN (IF status = "running" THEN "none" ELSE "start")
    ELSE IF cmd = "stop" THEN (IF status = "stopped" THEN "none" ELSE "shutdown")
    ELSE (IF status = "running" THEN "reboot" ELSE "start")

\* C6 (as stated): when a lifecycle command ends, every node whose status
\* fetch failed got no power action, and every other node got the transition
\* its own status determines.
C6_StatusFailureSkipsOnlyThatNode ==
    LifecycleEnded =>
        \A i \in 1..Len(all_nodes) :
            /\ i <= Len(trail)
            /\ trail[i].vm = Key(all_nodes[i])
            /\ trail[i].status = "error" => trail[i].posted = "none"
            /\ trail[i].status # "error" =>
                  trail[i].posted = C6_Transition(command, trail[i].status)

\* C7 (as stated): the configure-ips command ends with exit code 0 after a
\* completed convergence pass.
C7_ConfigureIpsExitsZero ==
    (pc = "exited" /\ command = "configure-ips") =>
        /\ exit_code = 0
        /\ outcome = "completed"

\* C8 (as stated): in a pass with force set every node whose attributes
\* already equal the target is rewritten and is in the ledger.
C8_ForceRewritesMatchingNodes ==
    (InPass /\ force) =>
        \A i \in 1..Len(trail) :
            trail[i].matched => trail[i].branch = "written" /\ InLedger(trail[i].vm)

\* C8 (amended): in a pass with force set every node whose attribute map is
\* available and already equals the target is issued a configuration write,
\* and is in the ledger exactly when that write succeeds.
C8_ForceIssuesWriteForMatchingNodes ==
    (InPass /\ force) =>
        \A i \in 1..Len(trail) :
            (trail[i].matched /\ trail[i].branch # "fetch_failed") =>
                /\ trail[i].branch \in WriteBranches
                /\ InLedger(trail[i].vm) <=> trail[i].branch = "written"

C8_Witness ==
    /\ pc = "done"
    /\ force
    /\ \E i \in 1..Len(trail) :
          trail[i].matched /\ trail[i].branch = "written" /\ InLedger(trail[i].vm)

\* (host, id) of a before (host, id) of b.
KeyBefore(a, b) == a[1] < b[1] \/ (a[1] = b[1] /\ a[2] < b[2])

\* C9: after population by the config file or by tag discovery, the master
\* is absent exactly when the server list is empty, and otherwise it is a
\* server no other server precedes in (host, id) order.
C9_MasterIsFirstSortedServer ==
    populated # "none" =>
        /\ (servers = <<>>) <=> (server_master = <<>>)
        /\ servers # <<>> =>
              /\ Len(server_master) = 1
              /\ \E i \in 1..Len(servers) : servers[i] = server_master[1]
              /\ \A i \in 1..Len(servers) :
                    ~KeyBefore(Key(servers[i]), Key(server_master[1]))

\* A discovery in set order (2,2), (2,1), (1,2) would put three servers in
\* the reverse of their sorted order; the master is the server (1,2).
C9_Witness ==
    /\ populated = "tags"
    /\ Len(servers) = 3
    /\ server_master # <<>>
    /\ Key(server_master[1]) = <<1, 2>>
    /\ prevPop # <<>>
    /\ prevPop[1].populated = "file"
    /\ prevPop[1].server_master = <<>>
    /\ prevPop[1].servers = <<>>

\* The server identities of this process and of the one before are the same
\* set.
SameServerSet ==
    /\ populated # "none"
    /\ prevPop # <<>>
    /\ SeqRange(KeysOf(servers)) = SeqRange(prevPop[1].servers)

\* C10: two population runs that find the same set of server identities
\* select the same master, and two runs by tag discovery also the same
\* ordered list of non-master servers.
C10_MasterSelectionIsDeterministic ==
    SameServerSet =>
        /\ KeysOf(server_master) = prevPop[1].server_master
        /\ (populated = "tags" /\ prevPop[1].populated = "tags") =>
              KeysOf(servers_no_first) = prevPop[1].servers_no_first

C10_Witness ==
    /\ SameServerSet
    /\ populated = "tags"
    /\ prevPop[1].populated = "tags"
    /\ Len(servers) = 3
    /\ Len(prevPop[1].servers_no_first) = 2
    /\ \E i \in 1..Len(servers[1].tags) : servers[1].tags[i] = STORAGE_TAG

\* The four node lists of the manager.
NodeLists == {all_nodes, servers, agents, storage}

\* C11 (as stated): after population each of the four node lists is strictly
\* ascending by (host, id), and the lifecycle loop visits the nodes in the
\* order of the all-nodes list.
C11_ListsStrictlyAscending ==
    populated # "none" =>
        /\ \A l \in NodeLists : \A i \in 1..(Len(l) - 1) :
              KeyBefore(Key(l[i]), Key(l[i + 1]))
        /\ (pc \in {"life", "exited"} /\ command \in LifecycleCommands) =>
              \A i \in 1..Len(trail) : trail[i].vm = Key(all_nodes[i])

\* C12 (as stated): after population no node list holds two identifiers with
\* the same (host, id).
C12_NoDuplicateIdentities ==
    populated # "none" =>
        \A l \in NodeLists : \A i, j \in 1..Len(l) :
            i # j => Key(l[i]) # Key(l[j])

\* The entries of the lifecycle log whose status fetch succeeded.
Observed == {i \in 1..Len(trail) : trail[i].status # "error"}

\* C18: under a restart command a node observed running is sent a reboot and
\* a node observed in any other status is sent a start, never a reboot.
C18_RestartTransition ==
    (pc \in {"life", "exited"} /\ command = "restart") =>
        \A i \in Observed :
            /\ trail[i].status = "running" => trail[i].posted = "reboot"
            /\ trail[i].status # "running" =>
                  trail[i].posted = "start" /\ trail[i].request # "reboot"

C18_Witness ==
    /\ pc = "exited"
    /\ command = "restart"
    /\ exit_code = 0
    /\ Len(trail) = 3
    /\ trail[1].status = "running" /\ trail[1].posted = "reboot"
    /\ trail[2].status = "stopped" /\ trail[2].posted = "start"
    /\ trail[3].status = "paused" /\ trail[3].posted = "start"

\* C19: a start sends nothing to a node observed running and a start to any
\* other; a stop sends nothing to a node observed stopped and a graceful
\* shutdown to any other; a start (stop) that observes every node running
\* (stopped) sends nothing at all.
C19_NoOpCases ==
    /\ (pc \in {"life", "exited"} /\ command = "start") =>
          /\ \A i \in Observed :
                trail[i].posted = IF trail[i].status = "running" THEN "none" ELSE "start"
          /\ (\A i \in 1..Len(trail) : trail[i].status = "running") =>
                \A i \in 1..Len(trail) : trail[i].posted = "none"
    /\ (pc \in {"life", "exited"} /\ command = "stop") =>
          /\ \A i \in Observed :
                trail[i].posted = IF trail[i].status = "stopped" THEN "none" ELSE "shutdown"
          /\ (\A i \in 1..Len(trail) : trail[i].status = "stopped") =>
                \A i \in 1..Len(trail) : trail[i].posted = "none"

C19_Witness ==
    /\ pc = "exited"
    /\ command = "stop"
    /\ exit_code = 0
    /\ Len(trail) = 3
    /\ trail[1].status = "stopped" /\ trail[1].posted = "none"
    /\ trail[2].status = "running" /\ trail[2].posted = "shutdown"
    /\ trail[3].status = "paused" /\ trail[3].posted = "shutdown"

\* The identifier of VM k occurs n times in list l.
Occurrences(l, k) == Cardinality({i \in 1..Len(l) : Key(l[i]) = k})

\* The tags attribute of VM k, as presented, has a segment that is the tag.
Carries(k, tag) ==
    \E i \in 1..Len(inventory[k].tags) : Strip(inventory[k].tags[i]) = tag

\* Tag discovery has populated the lists of this process.
Discovered == populated = "tags" /\ pc \in {"populated", "life", "exited"}

\* C13: after tag discovery every VM whose attribute map was fetched is in a
\* role list exactly when its tags attribute carries that role's tag, in
\* all-nodes exactly when it is in a role list, and never more than once in a
\* list.
C13_DiscoveryClassification ==
    Discovered =>
        \A k \in VmKeys :
            inventory[k].seen =>
                /\ Occurrences(servers, k) = IF Carries(k, SERVER_TAG) THEN 1 ELSE 0
                /\ Occurrences(agents, k) = IF Carries(k, AGENT_TAG) THEN 1 ELSE 0
                /\ Occurrences(storage, k) = IF Carries(k, STORAGE_TAG) THEN 1 ELSE 0
                /\ Occurrences(all_nodes, k) =
                      IF Carries(k, SERVER_TAG) \/ Carries(k, AGENT_TAG)
                         \/ Carries(k, STORAGE_TAG)
                      THEN 1 ELSE 0

\* Three fetched VMs: one with two role tags, one agent, one with no role tag.
C13_Witness ==
    /\ Discovered
    /\ \A k \in VmKeys : inventory[k].seen
    /\ Carries(<<1, 2>>, SERVER_TAG) /\ Carries(<<1, 2>>, STORAGE_TAG)
    /\ Carries(<<2, 1>>, AGENT_TAG)
    /\ ~Carries(<<2, 2>>, SERVER_TAG) /\ ~Carries(<<2, 2>>, AGENT_TAG)
    /\ ~Carries(<<2, 2>>, STORAGE_TAG)
    /\ Len(all_nodes) = 2
    /\ Len(servers) = 1 /\ Len(storage) = 1 /\ Len(agents) = 1

\* A call to the inventory client is in the log.
InventoryCalled ==
    \E i \in 1..Len(calls) : calls[i] \in {"get_proxmox_cluster_nodes", "get_vms_on_node"}

\* ensure_nodes_are_discovered is over: it returned or raised.
EnsureOver ==
    /\ HandlerMethod(command) \in ManagerMethods
    /\ pc \in {"populated", "life", "exited"}

\* C14: when the config file yields a node the lists come from the file and
\* the inventory client is not called; when the file is absent or yields no
\* node, discovery is run, and the command goes on only with discovered nodes.
C14_SourcePrecedence ==
    /\ (EnsureOver /\ config_file.shape = "ok" /\ ~FileGivesNoNode(config_file)) =>
          /\ populated = "file"
          /\ ~InventoryCalled
          /\ all_nodes # <<>>
          /\ \A i \in 1..Len(all_nodes) :
                \E j \in 1..Len(config_file.entries) :
                    Key(all_nodes[i]) = config_file.entries[j].key
    /\ (EnsureOver /\ FileGivesNoNode(config_file)) =>
          /\ InventoryCalled
          /\ (pc \in {"populated", "life"} \/ outcome = "completed") =>
                populated = "tags" /\ all_nodes # <<>>

\* A file with one entry of an unrecognized role, and discovery finding a
\* node: the command has run on the discovered node.
C14_Witness ==
    /\ EnsureOver
    /\ config_file.exists
    /\ Len(config_file.entries) = 1
    /\ FileGivesNoNode(config_file)
    /\ InventoryCalled
    /\ populated = "tags"
    /\ outcome = "completed"

\* Neither the config file nor the inventory gives a node.
NoNodeSet ==
    /\ FileGivesNoNode(config_file)
    /\ \/ hosts # "ok"
       \/ \A k \in VmKeys :
             \/ ~inventory[k].seen
             \/ ~(Carries(k, SERVER_TAG) \/ Carries(k, AGENT_TAG) \/ Carries(k, STORAGE_TAG))

\* C15 (as stated): when no node set can be built, every command that needs
\* nodes ends with NodeDiscoveryError and no per-VM call was made.
C15_NoNodesIsNodeDiscoveryError ==
    NoNodeSet =>
        /\ pc # "life"
        /\ trail = <<>>
        /\ pc = "exited" => outcome = "NodeDiscoveryError" /\ exit_code = 1

\* C16 (as stated): a command that loads a config file which is not the
\* expected structure ends with ConfigurationError and exit code 1, and the
\* node lists are as they were.
C16_MalformedFileIsConfigurationError ==
    (config_file.exists /\ config_file.shape # "ok"
     /\ HandlerMethod(command) \in ManagerMethods /\ pc = "exited") =>
        /\ outcome = "ConfigurationError"
        /\ exit_code = 1
        /\ Manager = EmptyLists

\* A dotted text of four fields between 0 and 255.
ValidAddressText(text) ==
    /\ Len(text) = 4
    /\ \A i \in 1..Len(text) : 0 <= text[i] /\ text[i] <= 255

EnvContent == IF ssh_sources.env # <<>> /\ ssh_sources.env[1] # "" THEN ssh_sources.env ELSE <<>>

ConfigContent ==
    IF /\ ssh_sources.config.shape = "object"
       /\ ssh_sources.config.has_field
       /\ ssh_sources.config.ssh_key # ""
    THEN <<ssh_sources.config.ssh_key>> ELSE <<>>

KeyFileContent ==
    IF /\ ssh_sources.keyfile.exists
       /\ ssh_sources.keyfile.readable
       /\ ssh_sources.keyfile.content \notin {"", "  "}
    THEN <<"ssh-ed25519 FILE">> ELSE <<>>

\* The key configure_vms goes on with: `if not ssh_key` takes an empty string
\* for no key.
KeyInUse == IF ssh_key = <<"">> THEN <<>> ELSE ssh_key

\* C20 (as stated): the resolved key is the content of the first of the
\* sources (environment key, ssh_key field, key file) that yields non-empty
\* content, and absent when none does.
C20_FirstNonEmptySourceWins ==
    pc = "key_resolved" =>
        KeyInUse = IF EnvContent # <<>> THEN EnvContent
                  ELSE IF ConfigContent # <<>> THEN ConfigContent
                  ELSE KeyFileContent

\* A pass that got past the parse of the address range.
InLoopOrAfter == InPass /\ outcome # "ConfigurationError"

FailureBranches == {"fetch_failed", "write_failed"}

\* C23: a node whose attribute fetch or configuration write failed is not in
\* the ledger, is visited once and gets no power action; the loop visits the
\* nodes in (host, id) order and, once over, has visited every node.
C23_NodeFailuresAreIsolated ==
    InLoopOrAfter =>
        /\ \A i \in 1..Len(trail) :
              /\ trail[i].vm = Key(all_nodes[i])
              /\ \A j \in (i + 1)..Len(trail) : KeyBefore(trail[i].vm, trail[j].vm)
              /\ trail[i].branch \in FailureBranches =>
                    /\ ~InLedger(trail[i].vm)
                    /\ \A j \in 1..Len(powerLog) : powerLog[j].vm # trail[i].vm
        /\ pc # "loop" => Len(trail) = Len(all_nodes)

\* The write of the first of three nodes failed; the second was written and
\* the third met the end of the range.
C23_Witness ==
    /\ pc = "done"
    /\ Len(trail) = 3
    /\ trail[1].branch = "write_failed"
    /\ trail[2].branch = "written"
    /\ trail[3].branch = "exhausted"
    /\ ~InLedger(trail[1].vm)
    /\ InLedger(trail[2].vm)

\* The attribute map the check had at hand differs from the target for the
\* cursor: the network-config string, or a non-empty target nameserver or
\* search domain.
Diverges(e) ==
    \/ e.read.ipconfig # [ip |-> e.cursor, cidr |-> K3S_NODE_CIDR, gw |-> K3S_NODE_GATEWAY]
    \/ target_nameserver_value # "" /\ e.read.nameserver # target_nameserver_value
    \/ target_searchdomain_value # "" /\ e.read.searchdomain # target_searchdomain_value

\* The entries of the log of the pass that reached the idempotency check.
Checked == {i \in 1..Len(trail) : trail[i].branch \notin {"fetch_failed", "exhausted"}}

\* C24: with force unset a node that reaches the idempotency check is issued
\* a configuration write exactly when its attribute map diverges from the
\* target.
C24_WriteOnDivergenceOnly ==
    (InPass /\ ~force) =>
        \A i \in Checked : (trail[i].branch \in WriteBranches) <=> Diverges(trail[i])

\* One node matching on all three is skipped; another whose network-config
\* string equals the target is written for its nameserver or search domain.
C24_Witness ==
    /\ pc = "done"
    /\ ~force
    /\ \E i \in Checked : trail[i].branch = "skipped" /\ ~trail[i].read.empty
    /\ \E i \in Checked :
          /\ trail[i].branch = "written"
          /\ trail[i].read.ipconfig = TargetIpconfig(trail[i].cursor)

InRunningModified(k) ==
    \E m \in 1..Len(running_modified_vms) : Key(running_modified_vms[m]) = k

\* C25: a VM is in the ledger exactly when a configuration write for it
\* succeeded in this pass, and in the running-modified list exactly when it is
\* in the ledger and its status in this pass was running.
C25_LedgerBookkeeping ==
    InLoopOrAfter =>
        \A k \in VmKeys :
            /\ InLedger(k) <=>
                  \E i \in 1..Len(trail) : trail[i].vm = k /\ trail[i].branch = "written"
            /\ InRunningModified(k) <=>
                  \E i \in 1..Len(trail) :
                      /\ trail[i].vm = k
                      /\ trail[i].branch = "written"
                      /\ trail[i].status = "running"

\* Two written nodes, one running and one of unknown status, and a running
\* node that was not written.
C25_Witness ==
    /\ pc = "done"
    /\ Len(trail) = 3
    /\ Len(modified_vms) = 2
    /\ Len(running_modified_vms) = 1
    /\ trail[1].branch = "written" /\ trail[1].status = "unknown"
    /\ trail[2].branch = "written" /\ trail[2].status = "running"
    /\ trail[3].branch # "written" /\ trail[3].status = "running"

\* Every status fetch and every attribute fetch of the pass so far succeeded.
AllFetchesSucceeded ==
    \A i \in 1..Len(trail) : trail[i].statusFetched /\ trail[i].branch # "fetch_failed"

\* C26: in a pass whose fetches all succeed the k-th node visited meets the
\* target address range-start + (k - 1) whenever that address is at most
\* range-end, and a node written holds that address.
C26_SequentialAssignment ==
    (InLoopOrAfter /\ AllFetchesSucceeded) =>
        \A k \in 1..Len(trail) :
            K3S_NODE_IP_RANGE_START + (k - 1) <= ip_range_end_int =>
                /\ trail[k].cursor = K3S_NODE_IP_RANGE_START + (k - 1)
                /\ trail[k].branch # "exhausted"
                /\ trail[k].branch = "written" =>
                      remote[trail[k].vm].ipconfig.ip = K3S_NODE_IP_RANGE_START + (k - 1)

\* The first node already has the first address, the second is written the
\* second address, the third finds the range exhausted.
C26_Witness ==
    /\ pc = "done"
    /\ AllFetchesSucceeded
    /\ Len(trail) = 3
    /\ trail[1].branch = "skipped"
    /\ trail[2].branch = "written"
    /\ trail[2].cursor = K3S_NODE_IP_RANGE_START + 1
    /\ trail[3].branch = "exhausted"

\* The branches open to a node that reached the exhaustion test.
BranchesFor(e) ==
    IF e.cursor > ip_range_end_int THEN {"exhausted"}
    ELSE IF force \/ Diverges(e) THEN WriteBranches
    ELSE {"skipped"}

\* C27: a node whose status fetch failed has status unknown and goes on as
\* any other node: its attribute fetch is made, and the exhaustion test, the
\* idempotency check and the write decide its branch.
C27_StatusFailureDoesNotAbortNode ==
    InLoopOrAfter =>
        \A i \in 1..Len(trail) :
            ~trail[i].statusFetched =>
                /\ trail[i].status = "unknown"
                /\ trail[i].branch = "fetch_failed" \/ trail[i].branch \in BranchesFor(trail[i])
                /\ trail[i].branch = "written" => InLedger(trail[i].vm)

\* A node of unknown status written, another skipped as already configured.
C27_Witness ==
    /\ pc = "done"
    /\ \E i \in 1..Len(trail) :
          ~trail[i].statusFetched /\ trail[i].branch = "written" /\ InLedger(trail[i].vm)
    /\ \E i \in 1..Len(trail) : ~trail[i].statusFetched /\ trail[i].branch = "skipped"

\* A check-version command has ended.
VersionChecked == pc = "exited" /\ command = "check-version"

\* The line typed is the affirmative answer to the (y/n) prompt.
Affirmative(line) == line \in {<<"y">>, <<" Y ">>}

\* C21 (as stated): the version changes only when the lookup gave a tag that
\* differs from the current one, ask_update is set and the answer is
\* affirmative; no prompt is shown when the tags are equal; and the command
\* never fails.
C21_VersionChangesOnlyOnConfirmedUpdate ==
    VersionChecked =>
        LET c == version_check IN
        /\ k3s_version =
              IF /\ c.response.kind = "tag"
                 /\ c.response.tag # c.before
                 /\ c.ask_update
                 /\ Affirmative(c.answer)
              THEN c.response.tag ELSE c.before
        /\ (c.response.kind = "tag" /\ c.response.tag = c.before) => ~c.prompted
        /\ exit_code = 0
        /\ outcome = "completed"

\* The exceptions main_cli takes for an application error: K3sDeployError and
\* its subclasses.
ApplicationErrors ==
    {"K3sDeployError", "ProxmoxError", "PveshCommandError", "NodeDiscoveryError",
     "ConfigurationError"}

\* C22: a process that has ended has exit code 0 exactly when its handler
\* completed, 1 exactly when the handler raised an application error, and 2
\* exactly when it raised any other exception.
C22_ExitCodes ==
    pc = "exited" =>
        /\ exit_code \in {0, 1, 2}
        /\ exit_code = 0 <=> outcome = "completed"
        /\ exit_code = 1 <=> outcome \in ApplicationErrors
        /\ exit_code = 2 <=> outcome \notin ApplicationErrors \cup {"completed"}

\* A lifecycle command ended by the ProxmoxError of a power action, after a
\* process that ended with an unexpected exception.
C22_Witness ==
    /\ pc = "exited"
    /\ command \in LifecycleCommands
    /\ outcome = "ProxmoxError"
    /\ exit_code = 1
    /\ runs = MaxProcs

\* VM k is presented with a recognized role tag.
RoleTagged(k) ==
    /\ inventory[k].seen
    /\ Carries(k, SERVER_TAG) \/ Carries(k, AGENT_TAG) \/ Carries(k, STORAGE_TAG)

\* The VM list of a host-node or the attribute fetch of a VM failed.
SomeDiscoveryFailure == \E k \in VmKeys : inventory[k].fault \in {"host", "vm"}

\* C28: after a discovery in which a VM list or an attribute fetch failed,
\* every VM presented with a role tag is in the lists of its roles and in
\* all-nodes, and with such a VM the discovery does not end in
\* NodeDiscoveryError.
C28_DiscoveryFailuresAreIsolated ==
    (Discovered /\ SomeDiscoveryFailure) =>
        /\ \A k \in VmKeys :
              RoleTagged(k) =>
                /\ Occurrences(all_nodes, k) = 1
                /\ Carries(k, SERVER_TAG) => Occurrences(servers, k) = 1
                /\ Carries(k, AGENT_TAG) => Occurrences(agents, k) = 1
                /\ Carries(k, STORAGE_TAG) => Occurrences(storage, k) = 1
        /\ (\E k \in VmKeys : RoleTagged(k)) => outcome # "NodeDiscoveryError"

\* The VM list of host-node 1 failed and so did the attribute fetch of VM
\* (2, 1); the server (2, 2) was found and the command ran on it.
C28_Witness ==
    /\ Discovered
    /\ inventory[<<1, 2>>].fault = "host"
    /\ inventory[<<2, 1>>].fault = "vm"
    /\ RoleTagged(<<2, 2>>)
    /\ Len(servers) = 1
    /\ Key(servers[1]) = <<2, 2>>
    /\ outcome = "completed"

\* The entries of the log that are calls of control_vm.
ControlCalls == {i \in 1..Len(api_log) : api_log[i].fn = "control_vm"}

\* The four actions control_vm is to accept.
AcceptedActions == {"start", "stop", "shutdown", "reboot"}

\* The calls that set up a client.
SetupCalls == {"connect", "version.get"}

\* C29 (as stated): control_vm raises ValueError for an action other than
\* start, stop, shutdown and reboot without any call to the remote service,
\* not even the connection or version check of a new client; for those four
\* it does not, and what it posts is the action, shutdown for stop.
C29_InvalidActionIsLocalError ==
    \A i \in ControlCalls :
        LET e == api_log[i] IN
        /\ e.action \notin AcceptedActions => e.raised = "ValueError" /\ e.calls = <<>>
        /\ e.action \in AcceptedActions =>
              /\ e.raised # "ValueError"
              /\ \A j \in 1..Len(e.calls) :
                    e.calls[j] \notin SetupCalls =>
                        e.calls[j] = IF e.action = "stop" THEN "shutdown" ELSE e.action

\* The clients the module has held.
HandlesHeld == {api_log[i].after : i \in 1..Len(api_log)} \ {<<>>}

\* C30: at most one client is ever constructed; a call that finds the client
\* set keeps it and makes no connection or version-check call; a call that
\* finds it unset and fails to construct one leaves it unset, and the call
\* after it attempts the construction again.
C30_ClientIsSingleton ==
    /\ Cardinality(HandlesHeld) <= 1
    /\ proxmox_client = IF api_log = <<>> THEN <<>> ELSE api_log[Len(api_log)].after
    /\ \A i \in 1..Len(api_log) :
          LET e == api_log[i] IN
          /\ e.before = IF i = 1 THEN <<>> ELSE api_log[i - 1].after
          /\ e.before # <<>> =>
                /\ e.after = e.before
                /\ \A j \in 1..Len(e.calls) : e.calls[j] \notin SetupCalls
          /\ (e.before = <<>> /\ proxmox_host_set) =>
                /\ e.calls # <<>> /\ e.calls[1] = "connect"
                /\ e.after = <<>> <=>
                      (e.raised = "ProxmoxError" /\ \A j \in 1..Len(e.calls) :
                                                       e.calls[j] \in SetupCalls)

\* A construction fails, the next call constructs the client, the third call
\* reuses it.
C30_Witness ==
    /\ Len(api_log) = 3
    /\ api_log[1].after = <<>>
    /\ api_log[2].before = <<>> /\ api_log[2].after # <<>>
    /\ api_log[3].before = api_log[2].after
    /\ api_log[3].after = api_log[2].after
    /\ api_log[3].calls = <<"status.current.get">>

\* The entries of the log of the pass for which a configuration write was
\* issued.
WriteIssued == {i \in 1..Len(trail) : trail[i].branch \in WriteBranches}

\* C31: every address of a configuration write of the pass lies between
\* range-start and range-end, the cursor is at most range-end + 1, and the
\* pass issues at most range-end - range-start + 1 writes.
C31_RangeSafety ==
    (InLoopOrAfter /\ K3S_NODE_IP_RANGE_START <= ip_range_end_int + 1) =>
        /\ \A i \in WriteIssued :
              /\ K3S_NODE_IP_RANGE_START <= trail[i].cursor
              /\ trail[i].cursor <= ip_range_end_int
              /\ trail[i].branch = "written" =>
                    /\ K3S_NODE_IP_RANGE_START <= remote[trail[i].vm].ipconfig.ip
                    /\ remote[trail[i].vm].ipconfig.ip <= ip_range_end_int
        /\ next_ip_to_assign_int <= ip_range_end_int + 1
        /\ Cardinality(WriteIssued) <= ip_range_end_int - K3S_NODE_IP_RANGE_START + 1

\* A range of two addresses and three nodes: two writes, the cursor at
\* range-end + 1, the third node without a write.
C31_Witness ==
    /\ pc = "done"
    /\ ip_range_end_int = K3S_NODE_IP_RANGE_START + 1
    /\ Len(trail) = 3
    /\ Cardinality(WriteIssued) = 2
    /\ next_ip_to_assign_int = ip_range_end_int + 1
    /\ trail[3].branch = "exhausted"
    /\ remote[trail[2].vm].ipconfig.ip = ip_range_end_int

\* C34: at every point of a pass the running-modified list holds only VMs of
\* the ledger, the ledger holds no VM twice and is in (host, id) order, and no
\* node has had more than one configuration write issued.
C34_LedgerIsSortedSet ==
    InLoopOrAfter =>
        /\ \A k \in VmKeys : InRunningModified(k) => InLedger(k)
        /\ \A i, j \in 1..Len(modified_vms) :
              i < j => KeyBefore(Key(modified_vms[i]), Key(modified_vms[j]))
        /\ \A i, j \in WriteIssued : i # j => trail[i].vm # trail[j].vm

\* A failed write that is not taken up again, followed by the successful
\* write of a running VM.
C34_Witness ==
    /\ pc = "done"
    /\ Len(trail) = 3
    /\ trail[1].branch = "write_failed"
    /\ ~InLedger(trail[1].vm)
    /\ trail[2].branch = "written"
    /\ Len(modified_vms) = 1
    /\ Len(running_modified_vms) = 1
    /\ Key(running_modified_vms[1]) = Key(modified_vms[1])

\* The identity (host, id) k is that of a member of list l.
IsElement(k, l) == \E i \in 1..Len(l) : Key(l[i]) = k

\* C32 (as stated): after population the master is not an element of the
\* non-master server list, and the master followed by the non-master server
\* list is the sorted server list.
C32_MasterSplitsServers ==
    populated # "none" =>
        /\ server_master # <<>> => ~IsElement(Key(server_master[1]), servers_no_first)
        /\ server_master \o servers_no_first = servers
        /\ \A i, j \in 1..Len(servers) :
              i < j => ~KeyBefore(Key(servers[j]), Key(servers[i]))

\* C33: after population the all-nodes list holds, by identity, exactly the
\* VMs of the server, agent and storage lists.
C33_AllNodesIsUnionOfRoles ==
    populated # "none" =>
        \A k \in VmKeys :
            IsElement(k, all_nodes) <=>
                (IsElement(k, servers) \/ IsElement(k, agents) \/ IsElement(k, storage))

\* Tag discovery gave two nodes, one of them in two role lists.
C33_Witness ==
    /\ populated = "tags"
    /\ Len(all_nodes) = 2
    /\ Len(servers) = 1 /\ Len(agents) = 1 /\ Len(storage) = 1

\* C35: once ensure_nodes_are_discovered has been called on a manager whose
\* all-nodes list is non-empty, the call log holds no further config-file or
\* inventory call and the four node lists, the master and the non-master
\* server list are those of the moment of the call.
C35_SecondEnsureIsNoOp ==
    second_call # <<>> =>
        /\ calls = second_call[1].calls
        /\ Manager = second_call[1].lists

\* The second call was made on a manager populated from the inventory, with
\* a master, and the command went on to its end.
C35_Witness ==
    /\ second_call # <<>>
    /\ pc = "exited"
    /\ populated = "tags"
    /\ InventoryCalled
    /\ server_master # <<>>
    /\ Len(all_nodes) >= 2

\* A step of the loop of configure_vms that logs the visit of a node.
VisitStep == InLoop /\ Len(trail') = Len(trail) + 1

\* A visit step with force unset that brings its node to the idempotency
\* check with network-config, nameserver and search domain matching the
\* target logs a skip and leaves the node's attributes on the cluster, the
\* SSH keys among them, as they were.
C36_Step ==
    (VisitStep /\ ~force) =>
        LET k == Key(sorted_nodes[idx])
            e == trail'[Len(trail')]
        IN (e.branch \notin {"fetch_failed", "exhausted"} /\ ~Diverges(e)) =>
              /\ e.branch = "skipped"
              /\ remote'[k] = remote[k]
              /\ modified_vms' = modified_vms

\* C36: the idempotency check does not depend on the SSH public key: with
\* force unset a node whose three network attributes match the target gets no
\* configuration write, whatever key was resolved.
C36_KeyDoesNotForceWrite == [][C36_Step]_vars

\* A key was resolved; a node that matched was skipped and carries no key,
\* while a node written in the same pass carries the quoted key.
C36_Witness ==
    /\ pc = "done"
    /\ ~force
    /\ ssh_key = <<"ssh-ed25519 ENV">>
    /\ \E i, j \in 1..Len(trail) :
          /\ trail[i].branch = "skipped"
          /\ remote[trail[i].vm].sshkeys = ""
          /\ trail[j].branch = "written"
          /\ remote[trail[j].vm].sshkeys = "ssh-ed25519%20ENV"

\* A visit step compares against the in-memory attribute map when that map
\* is non-empty and holds the network-config key, and against a map fetched
\* from the cluster otherwise; a successful write leaves in memory the map
\* that was compared.
C37_Step ==
    VisitStep =>
        LET k == Key(sorted_nodes[idx])
            e == trail'[Len(trail')]
            lacks == vmconfig[k].empty \/ vmconfig[k].ipconfig = EmptyIpconfig
        IN /\ e.branch = "fetch_failed" => lacks
           /\ (e.branch # "fetch_failed" /\ lacks) =>
                 e.read = [ipconfig |-> remote[k].ipconfig,
                           nameserver |-> remote[k].nameserver,
                           searchdomain |-> remote[k].searchdomain, empty |-> FALSE]
           /\ (e.branch # "fetch_failed" /\ ~lacks) => e.read = vmconfig[k]
           /\ e.branch = "written" =>
                 /\ vmconfig'[k] = e.read
                 /\ ~lacks => vmconfig'[k] = vmconfig[k]

\* C37 (amended): configure_vms fetches a node's attribute map only when the
\* in-memory map is empty or lacks the network-config key, and does not update
\* the in-memory map after a successful write; a later pass on the same
\* manager compares against the map in memory when that map holds the
\* network-config key, and against a newly fetched map otherwise.
C37_FetchOnlyWhenMissing == [][C37_Step]_vars

\* In a pass on a manager used before, every node that gets past the
\* attribute fetch is compared against the map the manager held in memory.
C37_SecondPassStep ==
    (VisitStep /\ ~cur.fresh) =>
        LET k == Key(sorted_nodes[idx])
            e == trail'[Len(trail')]
        IN e.branch # "fetch_failed" => e.read = vmconfig[k]

\* C37 (as stated): a second configure_vms pass on the same manager instance
\* compares against the attributes cached before the first pass's write.
C37_SecondPassComparesCache == [][C37_SecondPassStep]_vars

\* The second pass on the same manager, force unset: a node whose attributes
\* on the cluster matched the target was written again, because the map in
\* memory, holding the network-config key, was the one of before the first
\* pass's write, and it is in memory still.
C37_Witness ==
    /\ pc = "done"
    /\ ~cur.fresh
    /\ ~force
    /\ \E i \in 1..Len(trail) :
          /\ trail[i].branch = "written"
          /\ trail[i].matched
          /\ ~trail[i].read.empty
          /\ trail[i].read.ipconfig \notin {EmptyIpconfig, TargetIpconfig(trail[i].cursor)}
          /\ vmconfig[trail[i].vm] = trail[i].read
====
